---- MODULE Spec2Model ----
\* Event Directory Service (express + MongoDB): the request handlers of
\* index.js as a state machine.  A handler is cut at its awaited store calls:
\* one action per store call together with the synchronous code that follows
\* it up to the next await (or the response).  The synchronous code that runs
\* when the request is received is part of the receiving action.
EXTENDS Integers, Sequences, FiniteSets, TLC

\* ------------------------------------------------------------------ bounds
MaxTime == 3     \* the clock runs over 0..MaxTime (one unit = one day)
MaxIds == 4      \* number of ObjectIds the store hands out in a run
NSlots == 2      \* number of requests that can be in flight together

\* ------------------------------------------------------------------ state
VARIABLES
  events,   \* eventsCollection: set of Event documents
  joins,    \* joinedCollection: set of Join documents
  users,    \* usersCollection: set of User documents
  nextId,   \* next ObjectId the driver generates (ids are never reused)
  now,      \* the wall clock read by new Date()
  reqs,     \* the requests in flight, one per slot: position and locals
  last,     \* the last request answered and its response, for sequential runs
  isDbReady, \* the flag initDb sets after its connect
  client,   \* the module variable client: the MongoClient constructed last (0: none)
  handles,  \* the client the three collection handles were taken from (0: unassigned)
  clients,  \* the MongoClients whose connect() has succeeded
  made,     \* number of MongoClients constructed so far
  storeUp,  \* the store can be reached: a store call made now succeeds
  uriSet    \* process.env.MONGO_URI is set

conn == <<isDbReady, client, handles, clients, made, storeUp, uriSet>>
vars == <<events, joins, users, nextId, now, reqs, last, conn>>
store == <<events, joins, users>>

Slots == 1..NSlots
Time == 0..MaxTime

\* ------------------------------------------------------------ input values
Absent == "<undefined>"          \* a field missing from the request
NaN == -1                        \* getTime() of an invalid Date
BadId == -1                      \* an id string that is no ObjectId
NoId == 0                        \* a missing / empty id

\* JS truthiness of a request field
Falsy(v) == v \in {"", Absent}

\* Date texts a client can send: a date-only form and the ISO form of the
\* same instant, and text that is no date.
DateOnly(k) == "2030-01-1" \o ToString(k)
IsoText(k) == "2030-01-1" \o ToString(k) \o "T00:00:00.000Z"
Garbage == "not-a-date"

\* new Date(text).getTime()
ParseDate(text) ==
  IF \E k \in Time : text = DateOnly(k) THEN CHOOSE k \in Time : text = DateOnly(k)
  ELSE IF \E k \in Time : text = IsoText(k) THEN CHOOSE k \in Time : text = IsoText(k)
  ELSE NaN

\* JSON.stringify of a Date (Date.prototype.toJSON -> toISOString)
DateToJSON(t) == IsoText(t)

\* mutant: every id text is taken for an ObjectId
ObjectIdIsValid_Any(id) == TRUE

\* ObjectId.isValid(id)
ObjectIdIsValid(id) == id >= 0

\* ------------------------------------------------------------ slot records
Idle == [op |-> "idle", args |-> <<>>, pc |-> "idle", loc |-> <<>>,
         status |-> 0, body |-> <<>>]

\* a request received, about to issue its store call pc
Await(op, args, pc, loc) ==
  [op |-> op, args |-> args, pc |-> pc, loc |-> loc, status |-> 0, body |-> <<>>]

\* res.status(status).json(body)
Respond(r, status, body) ==
  [r EXCEPT !.pc = "done", !.status = status, !.body = body]

Reply(op, args, status, body) == Respond(Await(op, args, "done", <<>>), status, body)

InFlight(s) == reqs[s].pc \notin {"idle", "done"}

\* mutant: the middleware calls next() without waiting for initDb
Ready_NoGate(s) == reqs[s].pc \in {"idle", "next"}

\* The middleware in front of every route: await initDb(); next().  With
\* isDbReady set initDb returns at once and the route handler starts in the
\* same turn; otherwise the handler starts after the request's own initDb,
\* which leaves the request at "next".
Ready(s) == (reqs[s].pc = "idle" /\ isDbReady) \/ reqs[s].pc = "next"

\* the state of the connection once a first request has initialised the store
Initialised ==
  /\ isDbReady = TRUE
  /\ client = 1
  /\ handles = 1
  /\ clients = {1}
  /\ made = 1
  /\ storeUp = TRUE
  /\ uriSet = TRUE

\* ------------------------------------------------------------------- Init
Init ==
  /\ events = {}
  /\ joins = {}
  /\ users = {}
  /\ nextId = 1
  /\ now = 0
  /\ reqs = [s \in Slots |-> Idle]
  /\ last = Idle
  /\ Initialised

\* the clock advances
Tick ==
  /\ now < MaxTime
  /\ now' = now + 1
  /\ UNCHANGED <<conn, events, joins, users, nextId, reqs, last>>

\* ------------------------------------------------------ POST /events
\* the presence check of create and update
MissingField(a) ==
  \/ Falsy(a.title) \/ Falsy(a.description) \/ Falsy(a.eventType)
  \/ Falsy(a.thumbnail) \/ Falsy(a.location) \/ Falsy(a.eventDate)

\* mutant: a date equal to the clock is let through
NotFuture_Strict(d, t) == d < t

\* eventDateObj <= now
NotFuture(d, t) == d <= t

\* The handler up to its insertOne.  The clock is read for the future-date
\* check and again for createdAt; it may advance between the two reads.
PostEvents(s, inputs) ==
  /\ Ready(s)
  /\ \E a \in inputs, t2 \in Time :
       /\ t2 >= now
       /\ t2 <= now + 1
       /\ now' = t2
       /\ LET d == ParseDate(a.eventDate)
              r == IF MissingField(a) \/ Falsy(a.creatorEmail)
                     THEN Reply("create", a, 400, [message |-> "All fields are required."])
                   ELSE IF d = NaN
                     THEN Reply("create", a, 400, [message |-> "Invalid event date."])
                   ELSE IF NotFuture(d, now)
                     THEN Reply("create", a, 400, [message |-> "Event date must be a future date."])
                   ELSE Await("create", a, "insertOne",
                              [title |-> a.title, description |-> a.description,
                               eventType |-> a.eventType, thumbnail |-> a.thumbnail,
                               location |-> a.location, eventDate |-> d,
                               creatorEmail |-> a.creatorEmail, createdAt |-> t2])
          IN reqs' = [reqs EXCEPT ![s] = r]
  /\ UNCHANGED <<conn, events, joins, users, nextId, last>>

\* eventsCollection.insertOne(doc), then the 201 response
PostEventsInsert(s) ==
  /\ reqs[s].op = "create"
  /\ reqs[s].pc = "insertOne"
  /\ storeUp
  /\ nextId <= MaxIds
  /\ LET doc == reqs[s].loc
         e == [id |-> nextId, title |-> doc.title, description |-> doc.description,
               eventType |-> doc.eventType, thumbnail |-> doc.thumbnail,
               location |-> doc.location, eventDate |-> doc.eventDate,
               creatorEmail |-> doc.creatorEmail, createdAt |-> doc.createdAt]
     IN /\ events' = events \cup {e}
        /\ nextId' = nextId + 1
        /\ reqs' = [reqs EXCEPT ![s] = Respond(@, 201, [eventId |-> nextId])]
  /\ UNCHANGED <<conn, joins, users, now, last>>

\* ------------------------------------------------------ GET /events/:id
\* mutant: the filter is dropped, findOne returns the first document
FindEvent_NoFilter(id) ==
  IF events = {} THEN {} ELSE {CHOOSE e \in events : \A o \in events : e.id <= o.id}

\* eventsCollection.findOne({ _id }): the document with that id, if any
FindEvent(id) == {e \in events : e.id = id}

\* mutant: the response carries the creation time as the event date
EventToJSON_Created(e) ==
  [e EXCEPT !.eventDate = DateToJSON(e.createdAt), !.createdAt = DateToJSON(e.createdAt)]

\* the Event as res.json sends it: Dates become ISO strings
EventToJSON(e) ==
  [e EXCEPT !.eventDate = DateToJSON(e.eventDate), !.createdAt = DateToJSON(e.createdAt)]

GetEvent(s, ids) ==
  /\ Ready(s)
  /\ \E id \in ids :
       reqs' = [reqs EXCEPT ![s] =
                  IF ~ObjectIdIsValid(id)
                    THEN Reply("get", [id |-> id], 400, [message |-> "Invalid event id."])
                  ELSE Await("get", [id |-> id], "findOne", <<>>)]
  /\ UNCHANGED <<conn, events, joins, users, nextId, now, last>>

GetEventFind(s) ==
  /\ reqs[s].op = "get"
  /\ reqs[s].pc = "findOne"
  /\ storeUp
  /\ LET found == FindEvent(reqs[s].args.id)
     IN reqs' = [reqs EXCEPT ![s] =
                   IF found = {}
                     THEN Respond(@, 404, [message |-> "Event not found."])
                   ELSE Respond(@, 200, [event |-> EventToJSON(CHOOSE e \in found : TRUE)])]
  /\ UNCHANGED <<conn, events, joins, users, nextId, now, last>>

\* ------------------------------------------------------ PUT /events/:id
\* mutant: the ownership check compares nothing
NotCreator_Never(existing, requestorEmail) == FALSE

\* existing.creatorEmail !== requestorEmail
NotCreator(existing, requestorEmail) == existing.creatorEmail # requestorEmail

\* the checks made before the first store call, shared by PUT and DELETE
PutEvent(s, inputs) ==
  /\ Ready(s)
  /\ \E a \in inputs :
       reqs' = [reqs EXCEPT ![s] =
                  IF ~ObjectIdIsValid(a.id)
                    THEN Reply("update", a, 400, [message |-> "Invalid event id."])
                  ELSE IF Falsy(a.requestorEmail)
                    THEN Reply("update", a, 400, [message |-> "requestorEmail is required."])
                  ELSE Await("update", a, "findOne", <<>>)]
  /\ UNCHANGED <<conn, events, joins, users, nextId, now, last>>

\* findOne, then the existence, ownership, presence and date checks
PutEventFind(s) ==
  /\ reqs[s].op = "update"
  /\ reqs[s].pc = "findOne"
  /\ storeUp
  /\ LET a == reqs[s].args
         found == FindEvent(a.id)
         existing == CHOOSE e \in found : TRUE
         d == ParseDate(a.eventDate)
     IN reqs' = [reqs EXCEPT ![s] =
                   IF found = {}
                     THEN Respond(@, 404, [message |-> "Event not found."])
                   ELSE IF NotCreator(existing, a.requestorEmail)
                     THEN Respond(@, 403, [message |-> "You are not allowed to update this event."])
                   ELSE IF MissingField(a)
                     THEN Respond(@, 400, [message |-> "All fields are required."])
                   ELSE IF d = NaN
                     THEN Respond(@, 400, [message |-> "Invalid event date."])
                   ELSE IF NotFuture(d, now)
                     THEN Respond(@, 400, [message |-> "Event date must be a future date."])
                   ELSE [@ EXCEPT !.pc = "updateOne",
                                  !.loc = [title |-> a.title, description |-> a.description,
                                           eventType |-> a.eventType, thumbnail |-> a.thumbnail,
                                           location |-> a.location, eventDate |-> d]]]
  /\ UNCHANGED <<conn, events, joins, users, nextId, now, last>>

\* mutant: the update leaves the location as it was
SetFields_SkipsLocation(e, set) ==
  [e EXCEPT !.title = set.title, !.description = set.description,
            !.eventType = set.eventType, !.thumbnail = set.thumbnail,
            !.eventDate = set.eventDate]

\* mutant: the update also stamps the Event's createdAt
SetFields_Restamps(e, set) ==
  [e EXCEPT !.title = set.title, !.description = set.description,
            !.eventType = set.eventType, !.thumbnail = set.thumbnail,
            !.location = set.location, !.eventDate = set.eventDate,
            !.createdAt = set.eventDate]

\* updateOne({ _id }, { $set }) applied to a document
SetFields(e, set) ==
  [e EXCEPT !.title = set.title, !.description = set.description,
            !.eventType = set.eventType, !.thumbnail = set.thumbnail,
            !.location = set.location, !.eventDate = set.eventDate]

\* modifiedCount of that updateOne
ModifiedCount(id, set) ==
  Cardinality({e \in events : e.id = id /\ SetFields(e, set) # e})

\* mutant: the update is carried over to the Joins of the Event
PutEventUpdate_Propagates(s) ==
  /\ reqs[s].op = "update"
  /\ reqs[s].pc = "updateOne"
  /\ storeUp
  /\ LET id == reqs[s].args.id
         set == reqs[s].loc
     IN /\ events' = {IF e.id = id THEN SetFields(e, set) ELSE e : e \in events}
        /\ joins' = {IF j.eventId = id
                       THEN [j EXCEPT !.eventTitle = set.title, !.eventDate = set.eventDate]
                     ELSE j : j \in joins}
        /\ reqs' = [reqs EXCEPT ![s] =
                      Respond(@, 200, [message |-> "Event updated successfully.",
                                       modifiedCount |-> ModifiedCount(id, set)])]
  /\ UNCHANGED <<conn, users, nextId, now, last>>

\* eventsCollection.updateOne, then the 200 response (whatever matched)
PutEventUpdate(s) ==
  /\ reqs[s].op = "update"
  /\ reqs[s].pc = "updateOne"
  /\ storeUp
  /\ LET id == reqs[s].args.id
         set == reqs[s].loc
     IN /\ events' = {IF e.id = id THEN SetFields(e, set) ELSE e : e \in events}
        /\ reqs' = [reqs EXCEPT ![s] =
                      Respond(@, 200, [message |-> "Event updated successfully.",
                                       modifiedCount |-> ModifiedCount(id, set)])]
  /\ UNCHANGED <<conn, joins, users, nextId, now, last>>

\* --------------------------------------------------- DELETE /events/:id
DeleteEvent(s, inputs) ==
  /\ Ready(s)
  /\ \E a \in inputs :
       reqs' = [reqs EXCEPT ![s] =
                  IF ~ObjectIdIsValid(a.id)
                    THEN Reply("delete", a, 400, [message |-> "Invalid event id."])
                  ELSE IF Falsy(a.requestorEmail)
                    THEN Reply("delete", a, 400, [message |-> "requestorEmail is required."])
                  ELSE Await("delete", a, "findOne", <<>>)]
  /\ UNCHANGED <<conn, events, joins, users, nextId, now, last>>

\* mutant: the Event is removed before the ownership check
DeleteEventFind_RemovesFirst(s) ==
  /\ reqs[s].op = "delete"
  /\ reqs[s].pc = "findOne"
  /\ storeUp
  /\ LET a == reqs[s].args
         found == FindEvent(a.id)
         existing == CHOOSE e \in found : TRUE
     IN /\ events' = events \ found
        /\ reqs' = [reqs EXCEPT ![s] =
                      IF found = {}
                        THEN Respond(@, 404, [message |-> "Event not found."])
                      ELSE IF NotCreator(existing, a.requestorEmail)
                        THEN Respond(@, 403, [message |-> "You are not allowed to delete this event."])
                      ELSE [@ EXCEPT !.pc = "deleteOne"]]
  /\ UNCHANGED <<conn, joins, users, nextId, now, last>>

DeleteEventFind(s) ==
  /\ reqs[s].op = "delete"
  /\ reqs[s].pc = "findOne"
  /\ storeUp
  /\ LET a == reqs[s].args
         found == FindEvent(a.id)
         existing == CHOOSE e \in found : TRUE
     IN reqs' = [reqs EXCEPT ![s] =
                   IF found = {}
                     THEN Respond(@, 404, [message |-> "Event not found."])
                   ELSE IF NotCreator(existing, a.requestorEmail)
                     THEN Respond(@, 403, [message |-> "You are not allowed to delete this event."])
                   ELSE [@ EXCEPT !.pc = "deleteOne"]]
  /\ UNCHANGED <<conn, events, joins, users, nextId, now, last>>

\* mutant: the removal of the Event is held back until the Joins are removed
DeleteEventDeleteOne_Deferred(s) ==
  /\ reqs[s].op = "delete"
  /\ reqs[s].pc = "deleteOne"
  /\ storeUp
  /\ reqs' = [reqs EXCEPT ![s].pc = "deleteMany"]
  /\ UNCHANGED <<conn, events, joins, users, nextId, now, last>>

\* eventsCollection.deleteOne({ _id })
DeleteEventDeleteOne(s) ==
  /\ reqs[s].op = "delete"
  /\ reqs[s].pc = "deleteOne"
  /\ storeUp
  /\ events' = {e \in events : e.id # reqs[s].args.id}
  /\ reqs' = [reqs EXCEPT ![s].pc = "deleteMany"]
  /\ UNCHANGED <<conn, joins, users, nextId, now, last>>

\* mutant: the cascade removes nothing
CascadeKeeps_Everything(id) == joins

\* the Joins that joinedCollection.deleteMany({ eventId }) leaves
CascadeKeeps(id) == {j \in joins : j.eventId # id}

\* joinedCollection.deleteMany, then the 200 response
DeleteEventDeleteMany(s) ==
  /\ reqs[s].op = "delete"
  /\ reqs[s].pc = "deleteMany"
  /\ storeUp
  /\ joins' = CascadeKeeps(reqs[s].args.id)
  /\ reqs' = [reqs EXCEPT ![s] = Respond(@, 200, [message |-> "Event deleted successfully."])]
  /\ UNCHANGED <<conn, events, users, nextId, now, last>>

\* ------------------------------------------------------ POST /join-event
JoinEvent(s, inputs) ==
  /\ Ready(s)
  /\ \E a \in inputs :
       reqs' = [reqs EXCEPT ![s] =
                  IF a.eventId = NoId \/ Falsy(a.userEmail)
                    THEN Reply("join", a, 400, [message |-> "eventId and userEmail are required."])
                  ELSE IF ~ObjectIdIsValid(a.eventId)
                    THEN Reply("join", a, 400, [message |-> "Invalid eventId."])
                  ELSE Await("join", a, "findEvent", <<>>)]
  /\ UNCHANGED <<conn, events, joins, users, nextId, now, last>>

\* eventsCollection.findOne({ _id }); the Event read is kept for the snapshot
JoinEventFindEvent(s) ==
  /\ reqs[s].op = "join"
  /\ reqs[s].pc = "findEvent"
  /\ storeUp
  /\ LET found == FindEvent(reqs[s].args.eventId)
     IN reqs' = [reqs EXCEPT ![s] =
                   IF found = {}
                     THEN Respond(@, 404, [message |-> "Event not found."])
                   ELSE [@ EXCEPT !.pc = "findJoin", !.loc = CHOOSE e \in found : TRUE]]
  /\ UNCHANGED <<conn, events, joins, users, nextId, now, last>>

\* mutant: the duplicate query matches the Join's own _id against the event id
AlreadyJoined_ById(eventId, userEmail) ==
  \E j \in joins : j.id = eventId /\ j.userEmail = userEmail

\* joinedCollection.findOne({ eventId, userEmail }) finds a document
AlreadyJoined(eventId, userEmail) ==
  \E j \in joins : j.eventId = eventId /\ j.userEmail = userEmail

\* the duplicate check, then the Join document built from the Event read
JoinEventFindJoin(s) ==
  /\ reqs[s].op = "join"
  /\ reqs[s].pc = "findJoin"
  /\ storeUp
  /\ LET event == reqs[s].loc
         userEmail == reqs[s].args.userEmail
     IN reqs' = [reqs EXCEPT ![s] =
                   IF AlreadyJoined(event.id, userEmail)
                     THEN Respond(@, 400, [message |-> "You have already joined this event."])
                   ELSE [@ EXCEPT !.pc = "insertOne",
                                  !.loc = [eventId |-> event.id, userEmail |-> userEmail,
                                           joinedAt |-> now, eventTitle |-> event.title,
                                           eventType |-> event.eventType,
                                           thumbnail |-> event.thumbnail,
                                           location |-> event.location,
                                           eventDate |-> event.eventDate,
                                           creatorEmail |-> event.creatorEmail]]]
  /\ UNCHANGED <<conn, events, joins, users, nextId, now, last>>

\* mutant: the insert is refused when the pair is already there
InsertJoin_UniquePair(doc, id) ==
  IF \E j \in joins : j.eventId = doc.eventId /\ j.userEmail = doc.userEmail
    THEN joins
  ELSE joins \cup {[id |-> id, eventId |-> doc.eventId, userEmail |-> doc.userEmail,
                    joinedAt |-> doc.joinedAt, eventTitle |-> doc.eventTitle,
                    eventType |-> doc.eventType, thumbnail |-> doc.thumbnail,
                    location |-> doc.location, eventDate |-> doc.eventDate,
                    creatorEmail |-> doc.creatorEmail]}

\* the collection after joinedCollection.insertOne(joinDoc) under a fresh _id
InsertJoin(doc, id) ==
  joins \cup {[id |-> id, eventId |-> doc.eventId, userEmail |-> doc.userEmail,
               joinedAt |-> doc.joinedAt, eventTitle |-> doc.eventTitle,
               eventType |-> doc.eventType, thumbnail |-> doc.thumbnail,
               location |-> doc.location, eventDate |-> doc.eventDate,
               creatorEmail |-> doc.creatorEmail]}

JoinEventInsert(s) ==
  /\ reqs[s].op = "join"
  /\ reqs[s].pc = "insertOne"
  /\ storeUp
  /\ nextId <= MaxIds
  /\ joins' = InsertJoin(reqs[s].loc, nextId)
  /\ nextId' = nextId + 1
  /\ reqs' = [reqs EXCEPT ![s] = Respond(@, 201, [joinId |-> nextId])]
  /\ UNCHANGED <<conn, events, users, now, last>>

\* ------------------------------------------------------ GET /joined
\* .sort({ eventDate: 1 }).toArray(): ascending by eventDate, documents with
\* equal dates in insertion (_id) order
RECURSIVE SortByEventDate(_)
SortByEventDate(docs) ==
  IF docs = {} THEN <<>>
  ELSE LET first == CHOOSE d \in docs :
                      \A o \in docs : \/ d.eventDate < o.eventDate
                                      \/ d.eventDate = o.eventDate /\ d.id <= o.id
       IN <<first>> \o SortByEventDate(docs \ {first})

\* the Join as res.json sends it
JoinToJSON(j) ==
  [j EXCEPT !.eventDate = DateToJSON(j.eventDate), !.joinedAt = DateToJSON(j.joinedAt)]

\* joinedCollection.find({ userEmail })
JoinsOf(userEmail) == {j \in joins : j.userEmail = userEmail}

GetJoined(s, emails) ==
  /\ Ready(s)
  /\ \E email \in emails :
       reqs' = [reqs EXCEPT ![s] =
                  IF Falsy(email)
                    THEN Reply("joined", [email |-> email], 400, [message |-> "User email is required."])
                  ELSE Await("joined", [email |-> email], "find", <<>>)]
  /\ UNCHANGED <<conn, events, joins, users, nextId, now, last>>

GetJoinedFind(s) ==
  /\ reqs[s].op = "joined"
  /\ reqs[s].pc = "find"
  /\ storeUp
  /\ LET sorted == SortByEventDate(JoinsOf(reqs[s].args.email))
         joinedEvents == [i \in 1..Len(sorted) |-> JoinToJSON(sorted[i])]
     IN reqs' = [reqs EXCEPT ![s] =
                   Respond(@, 200, [count |-> Len(joinedEvents), joinedEvents |-> joinedEvents])]
  /\ UNCHANGED <<conn, events, joins, users, nextId, now, last>>

\* ------------------------------------------------------ GET /stats
\* aggregate([{ $group: { _id: "$creatorEmail" } }, ...]) then .filter(Boolean)
CreatorEmails == {e.creatorEmail : e \in events} \ {"", Absent}
ParticipantEmails == {j.userEmail : j \in joins} \ {"", Absent}

\* mutant: the two lists are concatenated without the Set
CountDistinct_Concat(creatorEmails, participantEmails) ==
  Cardinality(creatorEmails) + Cardinality(participantEmails)

\* [...new Set([...creatorEmails, ...participantEmails])].length
CountDistinct(creatorEmails, participantEmails) ==
  Cardinality(creatorEmails \cup participantEmails)

GetStats(s) ==
  /\ Ready(s)
  /\ reqs' = [reqs EXCEPT ![s] = Await("stats", <<>>, "countEvents", <<>>)]
  /\ UNCHANGED <<conn, events, joins, users, nextId, now, last>>

\* eventsCollection.estimatedDocumentCount()
StatsCountEvents(s) ==
  /\ reqs[s].op = "stats"
  /\ reqs[s].pc = "countEvents"
  /\ storeUp
  /\ reqs' = [reqs EXCEPT ![s].pc = "countJoined",
                          ![s].loc = [totalEvents |-> Cardinality(events)]]
  /\ UNCHANGED <<conn, events, joins, users, nextId, now, last>>

\* joinedCollection.estimatedDocumentCount()
StatsCountJoined(s) ==
  /\ reqs[s].op = "stats"
  /\ reqs[s].pc = "countJoined"
  /\ storeUp
  /\ reqs' = [reqs EXCEPT ![s].pc = "aggCreators",
                          ![s].loc = [totalEvents |-> reqs[s].loc.totalEvents,
                                      totalJoined |-> Cardinality(joins)]]
  /\ UNCHANGED <<conn, events, joins, users, nextId, now, last>>

StatsAggCreators(s) ==
  /\ reqs[s].op = "stats"
  /\ reqs[s].pc = "aggCreators"
  /\ storeUp
  /\ reqs' = [reqs EXCEPT ![s].pc = "aggParticipants",
                          ![s].loc = [totalEvents |-> reqs[s].loc.totalEvents,
                                      totalJoined |-> reqs[s].loc.totalJoined,
                                      creatorEmails |-> CreatorEmails]]
  /\ UNCHANGED <<conn, events, joins, users, nextId, now, last>>

StatsAggParticipants(s) ==
  /\ reqs[s].op = "stats"
  /\ reqs[s].pc = "aggParticipants"
  /\ storeUp
  /\ reqs' = [reqs EXCEPT ![s] =
                Respond(@, 200,
                        [totalEvents |-> reqs[s].loc.totalEvents,
                         totalUsers |-> CountDistinct(reqs[s].loc.creatorEmails, ParticipantEmails),
                         totalJoined |-> reqs[s].loc.totalJoined])]
  /\ UNCHANGED <<conn, events, joins, users, nextId, now, last>>

\* ------------------------------------------------------ POST /users/sync
\* mutant: the query names a field that never holds the email
FindUser_WrongField(email) ==
  LET found == {u \in users : u.photoURL = email}
  IN IF found = {} THEN {} ELSE {CHOOSE u \in found : \A o \in found : u.id <= o.id}

\* usersCollection.findOne({ email }): the first matching document
FindUser(email) ==
  LET found == {u \in users : u.email = email}
  IN IF found = {} THEN {} ELSE {CHOOSE u \in found : \A o \in found : u.id <= o.id}

\* displayName || ""
OrEmpty(v) == IF Falsy(v) THEN "" ELSE v

\* mutant: the value is written also when it is empty or missing
SetIfGiven_Always(v) == IF Falsy(v) THEN "" ELSE v

\* if (displayName) updateData.displayName = displayName
SetIfGiven(v) == IF Falsy(v) THEN Absent ELSE v

\* { $set: updateData } applied to a User document
SetUser(u, set) ==
  [u EXCEPT !.updatedAt = set.updatedAt,
            !.displayName = IF set.displayName = Absent THEN @ ELSE set.displayName,
            !.photoURL = IF set.photoURL = Absent THEN @ ELSE set.photoURL]

\* the projection the sync response carries
PublicUser(u) ==
  [email |-> u.email, displayName |-> u.displayName, photoURL |-> u.photoURL,
   role |-> u.role]

\* mutant: a new User is created as an admin
DefaultRole_Admin == "admin"

\* role of a User document created by sync
DefaultRole == "user"

UsersSync(s, inputs) ==
  /\ Ready(s)
  /\ \E a \in inputs :
       reqs' = [reqs EXCEPT ![s] =
                  IF Falsy(a.email)
                    THEN Reply("sync", a, 400, [message |-> "Email is required."])
                  ELSE Await("sync", a, "findOne", <<>>)]
  /\ UNCHANGED <<conn, events, joins, users, nextId, now, last>>

\* findOne, then either the new document (its two timestamps are two clock
\* reads) or the update data
UsersSyncFind(s) ==
  /\ reqs[s].op = "sync"
  /\ reqs[s].pc = "findOne"
  /\ storeUp
  /\ \E t2 \in Time :
       /\ t2 >= now
       /\ t2 <= now + 1
       /\ LET a == reqs[s].args
          IN IF FindUser(a.email) = {}
               THEN /\ now' = t2
                    /\ reqs' = [reqs EXCEPT ![s].pc = "insertOne",
                                  ![s].loc = [email |-> a.email,
                                              displayName |-> OrEmpty(a.displayName),
                                              photoURL |-> OrEmpty(a.photoURL),
                                              role |-> DefaultRole,
                                              createdAt |-> now, updatedAt |-> t2]]
               ELSE /\ t2 = now
                    /\ now' = now
                    /\ reqs' = [reqs EXCEPT ![s].pc = "updateOne",
                                  ![s].loc = [updatedAt |-> now,
                                              displayName |-> SetIfGiven(a.displayName),
                                              photoURL |-> SetIfGiven(a.photoURL)]]
  /\ UNCHANGED <<conn, events, joins, users, nextId, last>>

\* usersCollection.insertOne(newUser), then the response from newUser
UsersSyncInsert(s) ==
  /\ reqs[s].op = "sync"
  /\ reqs[s].pc = "insertOne"
  /\ storeUp
  /\ nextId <= MaxIds
  /\ LET d == reqs[s].loc
         u == [id |-> nextId, email |-> d.email, displayName |-> d.displayName,
               photoURL |-> d.photoURL, role |-> d.role, createdAt |-> d.createdAt,
               updatedAt |-> d.updatedAt]
     IN /\ users' = users \cup {u}
        /\ nextId' = nextId + 1
        /\ reqs' = [reqs EXCEPT ![s] = Respond(@, 200, [user |-> PublicUser(u)])]
  /\ UNCHANGED <<conn, events, joins, now, last>>

\* usersCollection.updateOne({ email }, { $set: updateData }): the first match
UsersSyncUpdate(s) ==
  /\ reqs[s].op = "sync"
  /\ reqs[s].pc = "updateOne"
  /\ storeUp
  /\ LET target == FindUser(reqs[s].args.email)
     IN users' = {IF u \in target THEN SetUser(u, reqs[s].loc) ELSE u : u \in users}
  /\ reqs' = [reqs EXCEPT ![s].pc = "refind"]
  /\ UNCHANGED <<conn, events, joins, nextId, now, last>>

\* the second findOne, then the response (user.email of null throws: 500)
UsersSyncRefind(s) ==
  /\ reqs[s].op = "sync"
  /\ reqs[s].pc = "refind"
  /\ storeUp
  /\ LET found == FindUser(reqs[s].args.email)
     IN reqs' = [reqs EXCEPT ![s] =
                   IF found = {}
                     THEN Respond(@, 500, [message |-> "Failed to sync user."])
                   ELSE Respond(@, 200, [user |-> PublicUser(CHOOSE u \in found : TRUE)])]
  /\ UNCHANGED <<conn, events, joins, users, nextId, now, last>>

\* ------------------------------------------------------ responses
\* The response has been delivered and the slot is free again.  The runs that
\* take one request at a time keep the request and its response in last.
Retire(s, keep) ==
  /\ reqs[s].pc = "done"
  /\ reqs' = [reqs EXCEPT ![s] = Idle]
  /\ last' = IF keep THEN reqs[s] ELSE last
  /\ UNCHANGED <<conn, events, joins, users, nextId, now>>

Quiescent == \A s \in Slots : ~InFlight(s)

\* ================================================================ inputs
Alice == "alice@x.com"
Bob == "bob@x.com"
Carol == "carol@x.com"

\* two complete event forms that differ in every field
FormA == [title |-> "City Park Cleanup Drive", description |-> "Clean up the city park",
          eventType |-> "Cleanup", thumbnail |-> "https://img/a.png",
          location |-> "City Park", eventDate |-> DateOnly(2)]
FormB == [title |-> "Tree Plantation Day", description |-> "Plant trees",
          eventType |-> "Plantation", thumbnail |-> "https://img/b.png",
          location |-> "Community Area", eventDate |-> IsoText(3)]

\* forms the presence and date checks must refuse
BadForms ==
  {[FormA EXCEPT !.title = ""], [FormA EXCEPT !.description = Absent],
   [FormA EXCEPT !.eventType = ""], [FormA EXCEPT !.thumbnail = Absent],
   [FormA EXCEPT !.location = ""], [FormA EXCEPT !.eventDate = ""],
   [FormA EXCEPT !.eventDate = Absent], [FormA EXCEPT !.eventDate = Garbage]}

CreateBody(form, creatorEmail) ==
  [title |-> form.title, description |-> form.description, eventType |-> form.eventType,
   thumbnail |-> form.thumbnail, location |-> form.location, eventDate |-> form.eventDate,
   creatorEmail |-> creatorEmail]

UpdateBody(id, form, requestorEmail) ==
  [id |-> id, title |-> form.title, description |-> form.description,
   eventType |-> form.eventType, thumbnail |-> form.thumbnail, location |-> form.location,
   eventDate |-> form.eventDate, requestorEmail |-> requestorEmail]

\* =========================================== one request at a time: events
CreateInputs ==
  {CreateBody(FormA, Alice), CreateBody(FormB, Bob), CreateBody(FormA, ""),
   CreateBody(FormB, Absent)}
  \cup {CreateBody(f, Alice) : f \in BadForms}

UpdateInputs ==
  {UpdateBody(id, f, Alice) : id \in {1, 2}, f \in {FormA, FormB} \cup BadForms}
  \cup {UpdateBody(1, f, who) : f \in {FormB, [FormA EXCEPT !.eventDate = Garbage]},
                                who \in {Bob, "", Absent}}
  \cup {UpdateBody(BadId, FormB, Alice)}

GetIds == {BadId, 1, 2}

NextEvents ==
  \/ Tick
  \/ PostEvents(1, CreateInputs)
  \/ PostEventsInsert(1)
  \/ GetEvent(1, GetIds)
  \/ GetEventFind(1)
  \/ PutEvent(1, UpdateInputs)
  \/ PutEventFind(1)
  \/ PutEventUpdate(1)
  \/ Retire(1, FALSE)

SpecEvents == Init /\ [][NextEvents]_vars

\* steps of a request, as seen in a pair of states
Received(s, op) == Ready(s) /\ reqs'[s].op = op
At(s, op, pc) == reqs[s].op = op /\ reqs[s].pc = pc
Step(s, op, pc) == At(s, op, pc) /\ reqs'[s] # reqs[s]
Answered(s, status) == reqs'[s].pc = "done" /\ reqs'[s].status = status

\* an eventDate the handlers must refuse at clock value t
BadDate(text, t) == ParseDate(text) = NaN \/ ParseDate(text) <= t

\* C6 as stated: create_event and update_event answer 400 to every request whose
\* eventDate is unparseable or not after the clock value the handler reads, and
\* to every request with a missing or empty required field, and such a request
\* changes no Event.
C6_Rejects400 ==
  [][\A s \in Slots :
       /\ (Received(s, "create")
             /\ (MissingField(reqs'[s].args) \/ Falsy(reqs'[s].args.creatorEmail)
                   \/ BadDate(reqs'[s].args.eventDate, now)))
            => (Answered(s, 400) /\ events' = events)
       /\ (Received(s, "update") /\ Falsy(reqs'[s].args.requestorEmail))
            => (Answered(s, 400) /\ events' = events)
       /\ (Step(s, "update", "findOne")
             /\ (MissingField(reqs[s].args) \/ BadDate(reqs[s].args.eventDate, now)))
            => (Answered(s, 400) /\ events' = events)]_vars

\* C6 amended: such a request is always refused and changes no Event; create
\* answers 400; update answers 400 unless an earlier check answers first: 404
\* when the id resolves to no Event, 403 when the requestor is not its creator.
C6_RejectsBadForm ==
  [][\A s \in Slots :
       /\ (Received(s, "create")
             /\ (MissingField(reqs'[s].args) \/ Falsy(reqs'[s].args.creatorEmail)
                   \/ BadDate(reqs'[s].args.eventDate, now)))
            => (Answered(s, 400) /\ events' = events)
       /\ (Received(s, "update") /\ Falsy(reqs'[s].args.requestorEmail))
            => (Answered(s, 400) /\ events' = events)
       /\ (Step(s, "update", "findOne")
             /\ (MissingField(reqs[s].args) \/ BadDate(reqs[s].args.eventDate, now)))
            => /\ events' = events
               /\ LET a == reqs[s].args
                      found == {e \in events : e.id = a.id}
                  IN Answered(s, IF found = {} THEN 404
                                 ELSE IF \E e \in found : e.creatorEmail # a.requestorEmail
                                   THEN 403
                                 ELSE 400)]_vars

\* an update by the creator whose eventDate equals the clock was answered 400
C6_Witness ==
  \E s \in Slots :
    /\ reqs[s].pc = "done"
    /\ reqs[s].status = 400
    /\ reqs[s].op = "update"
    /\ ~MissingField(reqs[s].args)
    /\ ParseDate(reqs[s].args.eventDate) = now
    /\ \E e \in events : e.id = reqs[s].args.id /\ e.creatorEmail = reqs[s].args.requestorEmail

\* ================================= one request at a time: create, then get
NextCreateGet ==
  \/ Tick
  \/ PostEvents(1, {CreateBody(FormA, Alice), CreateBody(FormB, Bob),
                    CreateBody([FormA EXCEPT !.title = ""], Bob)})
  \/ PostEventsInsert(1)
  \/ GetEvent(1, GetIds)
  \/ GetEventFind(1)
  \/ Retire(1, TRUE)

SpecCreateGet == Init /\ [][NextCreateGet]_vars

\* the Event a get returned carries the values a create submitted (the date as
\* the instant it denotes: the response carries its ISO text)
SameAsSubmitted(ev, a) ==
  /\ ev.title = a.title
  /\ ev.description = a.description
  /\ ev.eventType = a.eventType
  /\ ev.thumbnail = a.thumbnail
  /\ ev.location = a.location
  /\ ParseDate(ev.eventDate) = ParseDate(a.eventDate)
  /\ ev.creatorEmail = a.creatorEmail

\* C7: a create_event request with all seven fields non-empty and a parseable
\* eventDate strictly after the clock passes validation and is answered 201
\* with an id that no existing Event has; the get_event of that id that follows
\* is answered 200 with an Event carrying the submitted values.
C7_CreateThenGet ==
  [][\A s \in Slots :
       /\ (Received(s, "create")
             /\ ~MissingField(reqs'[s].args) /\ ~Falsy(reqs'[s].args.creatorEmail)
             /\ ~BadDate(reqs'[s].args.eventDate, now))
            => reqs'[s].pc = "insertOne"
       /\ Step(s, "create", "insertOne")
            => /\ Answered(s, 201)
               /\ \A e \in events : e.id # reqs'[s].body.eventId
               /\ \E e \in events' : e.id = reqs'[s].body.eventId
       /\ (Step(s, "get", "findOne") /\ last.op = "create" /\ last.status = 201
             /\ reqs[s].args.id = last.body.eventId)
            => /\ Answered(s, 200)
               /\ reqs'[s].body.event.id = last.body.eventId
               /\ SameAsSubmitted(reqs'[s].body.event, last.args)]_vars

\* a second Event was created and the get that followed returned it
C7_Witness ==
  \E s \in Slots :
    /\ reqs[s].op = "get" /\ reqs[s].pc = "done" /\ reqs[s].status = 200
    /\ last.op = "create" /\ last.status = 201
    /\ reqs[s].args.id = last.body.eventId
    /\ Cardinality(events) >= 2
    /\ reqs[s].body.event.eventDate # last.args.eventDate

\* ====================================== requests in flight together: events
\* The Event alice created from FormA at clock 0 is in the store.
SeedEvent ==
  [id |-> 1, title |-> FormA.title, description |-> FormA.description,
   eventType |-> FormA.eventType, thumbnail |-> FormA.thumbnail,
   location |-> FormA.location, eventDate |-> ParseDate(FormA.eventDate),
   creatorEmail |-> Alice, createdAt |-> 0]

InitRace ==
  /\ events = {SeedEvent}
  /\ joins = {}
  /\ users = {}
  /\ nextId = 2
  /\ now = 0
  /\ reqs = [s \in Slots |-> Idle]
  /\ last = Idle
  /\ Initialised

RaceUpdates ==
  {UpdateBody(1, f, who) : f \in {FormB, [FormA EXCEPT !.eventDate = Garbage]},
                           who \in {Alice, Bob, ""}}

RaceDeletes == {[id |-> 1, requestorEmail |-> who] : who \in {Alice, Bob, Absent}}

RaceJoins == {[eventId |-> 1, userEmail |-> Carol]}

NextRace ==
  \E s \in Slots :
    \/ PutEvent(s, RaceUpdates)
    \/ PutEventFind(s)
    \/ PutEventUpdate(s)
    \/ DeleteEvent(s, RaceDeletes)
    \/ DeleteEventFind(s)
    \/ DeleteEventDeleteOne(s)
    \/ DeleteEventDeleteMany(s)
    \/ JoinEvent(s, RaceJoins)
    \/ JoinEventFindEvent(s)
    \/ JoinEventFindJoin(s)
    \/ JoinEventInsert(s)
    \/ GetJoined(s, {Carol})
    \/ GetJoinedFind(s)
    \/ Retire(s, FALSE)

SpecRace == InitRace /\ [][NextRace]_vars

\* the step of slot s answers an update_event or delete_event
AnswersWrite(s) ==
  /\ reqs'[s].op \in {"update", "delete"}
  /\ reqs'[s].pc = "done"
  /\ reqs[s].pc # "done"

\* an existing Event is changed or removed only by the write of an
\* update_event or delete_event whose requestorEmail is its creatorEmail
OnlyCreatorWrites ==
  \A e \in events :
    e \notin events' =>
      \E s \in Slots :
        /\ \/ Step(s, "update", "updateOne")
           \/ Step(s, "delete", "deleteOne")
        /\ reqs[s].args.id = e.id
        /\ reqs[s].args.requestorEmail = e.creatorEmail

\* C1 as stated: for an existing Event E and every requestorEmail different
\* from E.creatorEmail, update_event and delete_event answer 403 whatever the
\* other fields are and leave E and every Join unchanged; an Event changes or
\* goes only in a step of its creator's update_event or delete_event.
C1_Forbidden ==
  [][/\ \A s \in Slots :
          (AnswersWrite(s)
             /\ \E e \in events : /\ e.id = reqs'[s].args.id
                                  /\ e.creatorEmail # reqs'[s].args.requestorEmail)
            => (Answered(s, 403) /\ events' = events /\ joins' = joins)
     /\ OnlyCreatorWrites]_vars

\* C1 amended: the same for every non-empty requestorEmail; an empty or
\* missing requestorEmail is answered 400 and changes nothing either.
C1_ForbiddenNonEmpty ==
  [][/\ \A s \in Slots :
          (AnswersWrite(s)
             /\ \E e \in events : /\ e.id = reqs'[s].args.id
                                  /\ e.creatorEmail # reqs'[s].args.requestorEmail)
            => /\ Answered(s, IF Falsy(reqs'[s].args.requestorEmail) THEN 400 ELSE 403)
               /\ events' = events
               /\ joins' = joins
     /\ OnlyCreatorWrites]_vars

\* bob's update with an unparseable date on alice's Event was answered 403
\* while the Event has a Join
C1_Witness ==
  \E s \in Slots :
    /\ reqs[s].op = "update" /\ reqs[s].pc = "done" /\ reqs[s].status = 403
    /\ reqs[s].args.requestorEmail = Bob
    /\ ParseDate(reqs[s].args.eventDate) = NaN
    /\ \E e \in events : e.id = reqs[s].args.id /\ e.creatorEmail = Alice
    /\ joins # {}

\* C4: a join_event that passed the duplicate check inserts its Join and is
\* answered 201 also when, by the time of its insert, another request has
\* inserted a Join for the same (eventId, userEmail): the pair then has two
\* Joins.
C4_RaceInsertsDuplicate ==
  [][\A s \in Slots :
       (Step(s, "join", "insertOne")
          /\ AlreadyJoined(reqs[s].loc.eventId, reqs[s].loc.userEmail))
         => /\ Answered(s, 201)
            /\ Cardinality(joins') = Cardinality(joins) + 1
            /\ Cardinality({j \in joins' : /\ j.eventId = reqs[s].loc.eventId
                                           /\ j.userEmail = reqs[s].loc.userEmail}) >= 2]_vars

\* both concurrent joins of carol were answered 201 and the store holds two
\* Joins for (event 1, carol)
C4_Witness ==
  /\ \A s \in {1, 2} : /\ reqs[s].op = "join" /\ reqs[s].pc = "done"
                       /\ reqs[s].status = 201
                       /\ reqs[s].args = [eventId |-> 1, userEmail |-> Carol]
  /\ reqs[1].body.joinId # reqs[2].body.joinId
  /\ \A s \in {1, 2} : \E j \in joins : /\ j.id = reqs[s].body.joinId
                                        /\ j.eventId = 1 /\ j.userEmail = Carol

\* C5 as stated: once the creator's delete_event(id) has answered 200 and no
\* other request is in flight, list_joined_events returns no Join whose
\* eventId is id.
C5_NoJoinAfterDelete ==
  [][\A s \in Slots :
       (Step(s, "joined", "find")
          /\ \E d \in Slots : /\ reqs[d].op = "delete" /\ reqs[d].pc = "done"
                              /\ reqs[d].status = 200
                              /\ \A o \in Slots \ {s} : ~InFlight(o))
         => \A d \in Slots :
              (reqs[d].op = "delete" /\ reqs[d].pc = "done" /\ reqs[d].status = 200)
                => \A i \in 1..Len(reqs'[s].body.joinedEvents) :
                     reqs'[s].body.joinedEvents[i].eventId # reqs[d].args.id]_vars

\* ================= one request at a time: create, join, delete, statistics
SeqJoins ==
  {[eventId |-> id, userEmail |-> who] : id \in {1, 2}, who \in {Alice, Carol}}
  \cup {[eventId |-> NoId, userEmail |-> Carol], [eventId |-> BadId, userEmail |-> Carol],
        [eventId |-> 1, userEmail |-> ""]}

SeqDeletes == {[id |-> 1, requestorEmail |-> Alice], [id |-> 1, requestorEmail |-> Bob],
               [id |-> BadId, requestorEmail |-> Alice], [id |-> 1, requestorEmail |-> ""]}

NextSeq ==
  \/ PostEvents(1, {CreateBody(FormA, Alice), CreateBody(FormB, Bob)})
  \/ PostEventsInsert(1)
  \/ JoinEvent(1, SeqJoins)
  \/ JoinEventFindEvent(1)
  \/ JoinEventFindJoin(1)
  \/ JoinEventInsert(1)
  \/ DeleteEvent(1, SeqDeletes)
  \/ DeleteEventFind(1)
  \/ DeleteEventDeleteOne(1)
  \/ DeleteEventDeleteMany(1)
  \/ GetStats(1)
  \/ StatsCountEvents(1)
  \/ StatsCountJoined(1)
  \/ StatsAggCreators(1)
  \/ StatsAggParticipants(1)
  \/ Retire(1, FALSE)

SpecSeq == Init /\ [][NextSeq]_vars

\* C3: with join_event requests taken one at a time, a join_event for a
\* (eventId, userEmail) that already has a Join is answered 400 and inserts
\* nothing, and no pair ever has two Joins.
C3_DuplicateJoinRefused ==
  [][/\ \A s \in Slots :
          (Step(s, "join", "findJoin")
             /\ \E j \in joins : /\ j.eventId = reqs[s].args.eventId
                                 /\ j.userEmail = reqs[s].args.userEmail)
            => (Answered(s, 400) /\ joins' = joins)
     /\ \A j1, j2 \in joins' :
          (j1.eventId = j2.eventId /\ j1.userEmail = j2.userEmail) => j1 = j2]_vars

\* a second join of an Event by a user who has a Join for it was answered 400
C3_Witness ==
  \E s \in Slots :
    /\ reqs[s].op = "join" /\ reqs[s].pc = "done" /\ reqs[s].status = 400
    /\ reqs[s].body.message = "You have already joined this event."
    /\ \E j \in joins : /\ j.eventId = reqs[s].args.eventId
                        /\ j.userEmail = reqs[s].args.userEmail

SeedAdmin ==
  [id |-> 1, email |-> Alice, displayName |-> "Alice A", photoURL |-> "https://img/alice.png",
   role |-> "admin", createdAt |-> 0, updatedAt |-> 0]

InitUsers ==
  /\ events = {}
  /\ joins = {}
  /\ \/ users = {} /\ nextId = 1
     \/ users = {SeedAdmin} /\ nextId = 2
  /\ now = 0
  /\ reqs = [s \in Slots |-> Idle]
  /\ last = Idle
  /\ Initialised

SyncBody(email, displayName, photoURL) ==
  [email |-> email, displayName |-> displayName, photoURL |-> photoURL]

SyncInputs ==
  {SyncBody(who, "Al", Absent) : who \in {Alice, Bob}}
  \cup {SyncBody(Alice, Absent, Absent), SyncBody(Alice, "", "https://img/new.png"),
        SyncBody("", "Al", Absent), SyncBody(Absent, Absent, Absent)}

\* one request at a time
NextSyncSeq ==
  \/ Tick
  \/ UsersSync(1, SyncInputs)
  \/ UsersSyncFind(1)
  \/ UsersSyncInsert(1)
  \/ UsersSyncUpdate(1)
  \/ UsersSyncRefind(1)
  \/ Retire(1, TRUE)

SpecSyncSeq == InitUsers /\ [][NextSyncSeq]_vars

\* requests in flight together
RaceSyncs ==
  {SyncBody(Alice, "Al", Absent), SyncBody(Bob, "", "https://img/new.png"),
   SyncBody("", "Al", Absent)}

NextSyncRace ==
  \E s \in Slots :
       \/ UsersSync(s, RaceSyncs)
       \/ UsersSyncFind(s)
       \/ UsersSyncInsert(s)
       \/ UsersSyncUpdate(s)
       \/ UsersSyncRefind(s)
       \/ Retire(s, FALSE)

SpecSyncRace == InitUsers /\ [][NextSyncRace]_vars

\* C2 as stated: the User collection never holds two Users with the same
\* email, also when sync_user requests for one email interleave at their
\* store calls.
C2_UniqueEmail ==
  \A u1, u2 \in users : u1.email = u2.email => u1 = u2

\* the fields of a User that a repeated sync must leave alone
SameButUpdatedAt(u1, u2) ==
  /\ u1.id = u2.id
  /\ u1.email = u2.email
  /\ u1.role = u2.role
  /\ u1.displayName = u2.displayName
  /\ u1.photoURL = u2.photoURL
  /\ u1.createdAt = u2.createdAt
  /\ u1.updatedAt <= u2.updatedAt

\* slot s runs a sync_user that repeats the request answered just before it
RepeatsLast(s) ==
  /\ reqs[s].op = "sync"
  /\ last.op = "sync"
  /\ last.status = 200
  /\ reqs[s].args = last.args

\* C9: a sync_user that repeats the sync_user answered just before it (same
\* email, same or no displayName and photoURL) leaves exactly one User for the
\* email, with the role, displayName, photoURL and createdAt it had after the
\* first call (updatedAt may advance), and returns the same projection.
C9_SyncIdempotent ==
  [][\A s \in Slots :
       (RepeatsLast(s) /\ reqs'[s] # reqs[s])
         => /\ Cardinality({u \in users' : u.email = reqs[s].args.email}) = 1
            /\ \A u \in users : \E v \in users' : SameButUpdatedAt(u, v)
            /\ Cardinality(users') = Cardinality(users)
            /\ reqs'[s].pc = "done"
                 => (reqs'[s].status = 200 /\ reqs'[s].body = last.body)]_vars

\* bob was created by a sync that named him "Al" and the same sync, repeated
\* at a later clock value, has been answered
C9_Witness ==
  \E s \in Slots :
    /\ RepeatsLast(s) /\ reqs[s].pc = "done" /\ reqs[s].status = 200
    /\ reqs[s].args.email = Bob
    /\ \E u \in users : u.email = Bob /\ u.createdAt < u.updatedAt /\ u.displayName = "Al"

\* C10: sync_user on an email with no User creates a User with role "user";
\* on an email with a User it changes neither role nor createdAt, and changes
\* displayName (photoURL) only to a non-empty displayName (photoURL) supplied.
C10_SyncFrame ==
  [][\A s \in Slots :
       /\ Step(s, "sync", "insertOne")
            => \E v \in users' \ users :
                 /\ users' = users \cup {v}
                 /\ v.email = reqs[s].args.email
                 /\ v.role = "user"
       /\ (reqs[s].op = "sync" /\ reqs[s].pc # "insertOne")
            => /\ Cardinality(users') = Cardinality(users)
               /\ \A u \in users : \E v \in users' :
                    /\ v.id = u.id /\ v.email = u.email
                    /\ v.role = u.role
                    /\ v.createdAt = u.createdAt
                    /\ v.displayName # u.displayName
                         => (v.displayName = reqs[s].args.displayName
                               /\ ~Falsy(reqs[s].args.displayName)
                               /\ u.email = reqs[s].args.email)
                    /\ v.photoURL # u.photoURL
                         => (v.photoURL = reqs[s].args.photoURL
                               /\ ~Falsy(reqs[s].args.photoURL)
                               /\ u.email = reqs[s].args.email)]_vars

\* the admin alice was synced with an empty displayName and a new photoURL:
\* she is still admin, kept her displayName and has the new photoURL
C10_Witness ==
  \E s \in Slots :
    /\ reqs[s].op = "sync" /\ reqs[s].pc = "done" /\ reqs[s].status = 200
    /\ reqs[s].args = SyncBody(Alice, "", "https://img/new.png")
    /\ \E u \in users : /\ u.email = Alice /\ u.role = "admin"
                        /\ u.displayName = "Alice A"
                        /\ u.photoURL = "https://img/new.png"
                        /\ u.createdAt < u.updatedAt

\* =============================================== the user administration routes
\* ------------------------------------------------ PATCH /users/:email/role
\* mutant: any non-empty role text is accepted
ValidRole_Any(role) == ~Falsy(role)

\* !(!role || !["user", "admin"].includes(role))
ValidRole(role) == ~Falsy(role) /\ role \in {"user", "admin"}

\* mutant: any existing User passes the admin check
NotAdmin_AnyUser(found) == found = {}

\* !requestor || requestor.role !== "admin"
NotAdmin(found) == found = {} \/ (CHOOSE u \in found : TRUE).role # "admin"

PatchRole(s, inputs) ==
  /\ Ready(s)
  /\ \E a \in inputs :
       reqs' = [reqs EXCEPT ![s] =
                  IF ~ValidRole(a.role)
                    THEN Reply("role", a, 400, [message |-> "Valid role (user or admin) is required."])
                  ELSE Await("role", a, "findRequestor", <<>>)]
  /\ UNCHANGED <<conn, events, joins, users, nextId, now, last>>

\* findOne({ email: requestorEmail }); the update document is built, with its
\* clock read, when updateOne is called
PatchRoleFindRequestor(s) ==
  /\ reqs[s].op = "role"
  /\ reqs[s].pc = "findRequestor"
  /\ storeUp
  /\ LET a == reqs[s].args
     IN reqs' = [reqs EXCEPT ![s] =
                   IF NotAdmin(FindUser(a.requestorEmail))
                     THEN Respond(@, 403, [message |-> "Only admins can update user roles."])
                   ELSE [@ EXCEPT !.pc = "updateOne",
                                  !.loc = [role |-> a.role, updatedAt |-> now]]]
  /\ UNCHANGED <<conn, events, joins, users, nextId, now, last>>

\* mutant: the update is applied to every User document
RoleTargets_All(email) == users

\* the document updateOne({ email }, ...) matches: the first one with the email
RoleTargets(email) == FindUser(email)

\* updateOne({ email }, { $set: { role, updatedAt } }), then matchedCount
PatchRoleUpdate(s) ==
  /\ reqs[s].op = "role"
  /\ reqs[s].pc = "updateOne"
  /\ storeUp
  /\ LET matched == RoleTargets(reqs[s].args.email)
         set == reqs[s].loc
     IN /\ users' = {IF u \in matched
                       THEN [u EXCEPT !.role = set.role, !.updatedAt = set.updatedAt]
                     ELSE u : u \in users}
        /\ reqs' = [reqs EXCEPT ![s] =
                      IF matched = {}
                        THEN Respond(@, 404, [message |-> "User not found."])
                      ELSE Respond(@, 200, [message |-> "User role updated successfully."])]
  /\ UNCHANGED <<conn, events, joins, nextId, now, last>>

\* ------------------------------------------------------------ GET /users
\* a document under the projection email, displayName, photoURL, role,
\* createdAt (the _id comes with every projection)
ListedUser(u) ==
  [id |-> u.id, email |-> u.email, displayName |-> u.displayName,
   photoURL |-> u.photoURL, role |-> u.role, createdAt |-> u.createdAt]

GetUsers(s, inputs) ==
  /\ Ready(s)
  /\ \E a \in inputs :
       reqs' = [reqs EXCEPT ![s] =
                  IF Falsy(a.requestorEmail)
                    THEN Reply("users", a, 400, [message |-> "Requestor email is required."])
                  ELSE Await("users", a, "findRequestor", <<>>)]
  /\ UNCHANGED <<conn, events, joins, users, nextId, now, last>>

GetUsersFindRequestor(s) ==
  /\ reqs[s].op = "users"
  /\ reqs[s].pc = "findRequestor"
  /\ storeUp
  /\ reqs' = [reqs EXCEPT ![s] =
                IF NotAdmin(FindUser(reqs[s].args.requestorEmail))
                  THEN Respond(@, 403, [message |-> "Only admins can view all users."])
                ELSE [@ EXCEPT !.pc = "find"]]
  /\ UNCHANGED <<conn, events, joins, users, nextId, now, last>>

\* find({}, { projection }).toArray()
GetUsersFind(s) ==
  /\ reqs[s].op = "users"
  /\ reqs[s].pc = "find"
  /\ storeUp
  /\ reqs' = [reqs EXCEPT ![s] = Respond(@, 200, [users |-> {ListedUser(u) : u \in users}])]
  /\ UNCHANGED <<conn, events, joins, users, nextId, now, last>>

\* ------------------------------------------------------ GET /users/:email
\* the fields the handler copies into its response
UserToJSON(u) ==
  [email |-> u.email, displayName |-> u.displayName, photoURL |-> u.photoURL,
   role |-> u.role, createdAt |-> u.createdAt]

GetUser(s, emails) ==
  /\ Ready(s)
  /\ \E email \in emails :
       reqs' = [reqs EXCEPT ![s] = Await("user", [email |-> email], "findOne", <<>>)]
  /\ UNCHANGED <<conn, events, joins, users, nextId, now, last>>

GetUserFind(s) ==
  /\ reqs[s].op = "user"
  /\ reqs[s].pc = "findOne"
  /\ storeUp
  /\ LET found == FindUser(reqs[s].args.email)
     IN reqs' = [reqs EXCEPT ![s] =
                   IF found = {}
                     THEN Respond(@, 404, [message |-> "User not found."])
                   ELSE Respond(@, 200, [user |-> UserToJSON(CHOOSE u \in found : TRUE)])]
  /\ UNCHANGED <<conn, events, joins, users, nextId, now, last>>

\* ------------------------------------------------ administration, in sequence
RoleBody(email, role, requestorEmail) ==
  [email |-> email, role |-> role, requestorEmail |-> requestorEmail]

RoleInputs ==
  {RoleBody(email, role, requestorEmail) :
     email \in {Alice, Bob, Carol},
     role \in {"user", "admin", "owner", "", Absent},
     requestorEmail \in {Alice, Bob, "", Absent}}

ListInputs == {[requestorEmail |-> e] : e \in {Alice, Bob, Carol, "", Absent}}

AdminSyncs == {SyncBody(Bob, "Al", Absent), SyncBody(Alice, Absent, Absent)}

NextAdmin ==
  \/ Tick
  \/ UsersSync(1, AdminSyncs)
  \/ UsersSyncFind(1)
  \/ UsersSyncInsert(1)
  \/ UsersSyncUpdate(1)
  \/ UsersSyncRefind(1)
  \/ PatchRole(1, RoleInputs)
  \/ PatchRoleFindRequestor(1)
  \/ PatchRoleUpdate(1)
  \/ GetUsers(1, ListInputs)
  \/ GetUsersFindRequestor(1)
  \/ GetUsersFind(1)
  \/ GetUser(1, {Alice, Bob, Carol})
  \/ GetUserFind(1)
  \/ Retire(1, FALSE)

SpecAdmin == InitUsers /\ [][NextAdmin]_vars

\* ---------------------------------------------------------------- C11
\* the email belongs to a User whose role is admin
IsAdminEmail(email) == \E u \in users : u.email = email /\ u.role = "admin"

IsUserEmail(email) == \E u \in users : u.email = email

InRoleEnum(role) == role = "user" \/ role = "admin"

\* C11: set_user_role applies its checks in order and changes no User unless
\* all pass.  A newRole that is missing or outside {user, admin} is answered
\* 400 whoever asks; then a requestor that is missing, unknown or no admin is
\* answered 403 whatever the target; then a target email that has no User is
\* answered 404; otherwise the answer is 200, the target's role is newRole and
\* every other User is as before.  No other step of the request writes users.
C11_RoleChecksInOrder ==
  [][\A s \in Slots :
       /\ \A a \in RoleInputs :
            (Received(s, "role") /\ reqs'[s].args = a /\ ~InRoleEnum(a.role))
              => Answered(s, 400) /\ users' = users
       /\ (Step(s, "role", "findRequestor") /\ ~IsAdminEmail(reqs[s].args.requestorEmail))
            => Answered(s, 403) /\ users' = users
       /\ (Step(s, "role", "updateOne") /\ ~IsUserEmail(reqs[s].args.email))
            => Answered(s, 404) /\ users' = users
       /\ (Step(s, "role", "updateOne") /\ IsUserEmail(reqs[s].args.email))
            => /\ Answered(s, 200)
               /\ \A u \in users' : u.email = reqs[s].args.email => u.role = reqs[s].args.role
               /\ \A u \in users : u.email # reqs[s].args.email => u \in users'
               /\ Cardinality(users') = Cardinality(users)
       /\ (reqs'[s].op = "role" /\ reqs'[s] # reqs[s] /\ users' # users)
            => At(s, "role", "updateOne") /\ Answered(s, 200)]_vars

\* an admin has made another User an admin
C11_Witness ==
  /\ reqs[1].op = "role" /\ reqs[1].pc = "done" /\ reqs[1].status = 200
  /\ reqs[1].args.email = Bob /\ reqs[1].args.requestorEmail = Alice
  /\ \E u \in users : u.email = Bob /\ u.role = "admin"
  /\ \E u \in users : u.email = Alice /\ u.role = "admin"

\* --------------------------------------- administration, requests in flight
SeedUser ==
  [id |-> 2, email |-> Bob, displayName |-> "Al", photoURL |-> "",
   role |-> "user", createdAt |-> 0, updatedAt |-> 0]

\* the store after an admin exists and bob has synced
InitAdminRace ==
  /\ events = {}
  /\ joins = {}
  /\ users = {SeedAdmin, SeedUser}
  /\ nextId = 3
  /\ now = 0
  /\ reqs = [s \in Slots |-> Idle]
  /\ last = Idle
  /\ Initialised

RaceRoles ==
  {RoleBody(Alice, "user", Alice), RoleBody(Bob, "admin", Alice),
   RoleBody(Bob, "owner", Bob)}

RaceLists == {[requestorEmail |-> e] : e \in {Alice, Bob, Absent}}

NextAdminRace ==
  \E s \in Slots :
       \/ PatchRole(s, RaceRoles)
       \/ PatchRoleFindRequestor(s)
       \/ PatchRoleUpdate(s)
       \/ GetUsers(s, RaceLists)
       \/ GetUsersFindRequestor(s)
       \/ GetUsersFind(s)
       \/ Retire(s, FALSE)

SpecAdminRace == InitAdminRace /\ [][NextAdminRace]_vars

\* ---------------------------------------------------------------- C12
CarriesUsers(body) == "users" \in DOMAIN body

C13_RoleInEnumNoRemoval ==
  /\ \A u \in users : InRoleEnum(u.role)
  /\ [][/\ \A u \in users' : InRoleEnum(u.role)
        /\ \A u \in users : \E v \in users' : v.id = u.id /\ v.email = u.email]_vars

\* bob, created by sync with role user, was made admin and has synced again
C13_Witness ==
  /\ reqs[1].op = "sync" /\ reqs[1].pc = "done" /\ reqs[1].status = 200
  /\ reqs[1].args.email = Bob
  /\ \E u \in users : u.email = Bob /\ u.role = "admin" /\ u.updatedAt > u.createdAt
  /\ Cardinality(users) = 2

\* ============================================ store initialisation, failures
MaxClients == 3   \* number of MongoClients constructed in a run

\* the state after index.js has been loaded: nothing connected yet
InitBoot ==
  /\ events = {}
  /\ joins = {}
  /\ users = {}
  /\ nextId = 1
  /\ now = 0
  /\ reqs = [s \in Slots |-> Idle]
  /\ last = Idle
  /\ isDbReady = FALSE
  /\ client = 0
  /\ handles = 0
  /\ clients = {}
  /\ made = 0
  /\ storeUp \in BOOLEAN
  /\ uriSet \in BOOLEAN

\* the store becomes unreachable / reachable again
StoreGoesDown ==
  /\ storeUp
  /\ storeUp' = FALSE
  /\ UNCHANGED <<events, joins, users, nextId, now, reqs, last,
                 isDbReady, client, handles, clients, made, uriSet>>

StoreComesUp ==
  /\ ~storeUp
  /\ storeUp' = TRUE
  /\ UNCHANGED <<events, joins, users, nextId, now, reqs, last,
                 isDbReady, client, handles, clients, made, uriSet>>

InitFailed == [message |-> "Database initialization failed."]

\* A request arrives while isDbReady is unset: initDb up to its await.  With
\* no uri it throws and the middleware answers 500; otherwise it constructs a
\* MongoClient, stores it in the module variable client and calls connect().
InitDbStart(s) ==
  /\ reqs[s].pc = "idle"
  /\ ~isDbReady
  /\ IF ~uriSet
       THEN /\ reqs' = [reqs EXCEPT ![s] = Reply("initDb", <<>>, 500, InitFailed)]
            /\ UNCHANGED <<client, made>>
     ELSE /\ made < MaxClients
          /\ made' = made + 1
          /\ client' = made + 1
          /\ reqs' = [reqs EXCEPT ![s] = Await("initDb", <<>>, "connect", [client |-> made + 1])]
  /\ UNCHANGED <<events, joins, users, nextId, now, last,
                 isDbReady, handles, clients, storeUp, uriSet>>

\* the request's connect() has succeeded: db and the collection handles are
\* taken from the module variable client, isDbReady is set, next() is called
InitDbConnected(s) ==
  /\ reqs[s].op = "initDb"
  /\ reqs[s].pc = "connect"
  /\ storeUp
  /\ clients' = clients \cup {reqs[s].loc.client}
  /\ handles' = client
  /\ isDbReady' = TRUE
  /\ reqs' = [reqs EXCEPT ![s].pc = "next"]
  /\ UNCHANGED <<events, joins, users, nextId, now, last, client, made, storeUp, uriSet>>

\* mutant: the middleware's catch logs the error and sends nothing
InitDbConnectFails_Silent(s) ==
  /\ reqs[s].op = "initDb"
  /\ reqs[s].pc = "connect"
  /\ ~storeUp
  /\ reqs' = [reqs EXCEPT ![s].pc = "unhandled"]
  /\ UNCHANGED <<conn, events, joins, users, nextId, now, last>>

\* the request's connect() has failed: the middleware's catch answers 500
InitDbConnectFails(s) ==
  /\ reqs[s].op = "initDb"
  /\ reqs[s].pc = "connect"
  /\ ~storeUp
  /\ reqs' = [reqs EXCEPT ![s] = Respond(@, 500, InitFailed)]
  /\ UNCHANGED <<conn, events, joins, users, nextId, now, last>>

\* GET /: answers without a store call
GetRoot(s) ==
  /\ Ready(s)
  /\ reqs' = [reqs EXCEPT ![s] =
                Reply("root", <<>>, 200, [text |-> "Social Development Events API is running."])]
  /\ UNCHANGED <<conn, events, joins, users, nextId, now, last>>

\* the message of each handler's catch block
FailMessage(op) ==
  CASE op = "stats" -> "Failed to load statistics"
    [] op = "sync" -> "Failed to sync user."
    [] op = "user" -> "Failed to get user."
    [] op = "role" -> "Failed to update user role."
    [] op = "users" -> "Failed to get users."
    [] op = "create" -> "Failed to create event"
    [] op = "get" -> "Failed to load event details"
    [] op = "update" -> "Failed to update event"
    [] op = "join" -> "Failed to join event."
    [] op = "delete" -> "Failed to delete event"
    [] op = "joined" -> "Failed to load joined events"
    [] op = "list" -> "Failed to load events"
    [] op = "upcoming" -> "Failed to load upcoming events"
    [] op = "userEvents" -> "Failed to load user events"
    [] op = "seed" -> "Failed to seed demo events"

\* the request is waiting for a store call of its route handler
AtStoreCall(s) == InFlight(s) /\ reqs[s].op # "initDb"

\* mutant: the failure is not caught and the request is never answered
StoreCallThrows_Escapes(s) ==
  /\ AtStoreCall(s)
  /\ ~storeUp \/ handles \notin clients
  /\ reqs' = [reqs EXCEPT ![s].pc = "unhandled"]
  /\ UNCHANGED <<conn, events, joins, users, nextId, now, last>>

\* The awaited store call throws: the store cannot be reached, or the handles
\* belong to a client whose connect() has not succeeded.  The handler's catch
\* answers 500; what the handler wrote before stays.
StoreCallThrows(s) ==
  /\ AtStoreCall(s)
  /\ ~storeUp \/ handles \notin clients
  /\ reqs' = [reqs EXCEPT ![s] = Respond(@, 500, [message |-> FailMessage(reqs[s].op)])]
  /\ UNCHANGED <<conn, events, joins, users, nextId, now, last>>

\* first requests arriving together, on a route with a store call and on one
\* without
NextBoot ==
  \/ StoreGoesDown
  \/ StoreComesUp
  \/ \E s \in Slots :
       \/ InitDbStart(s)
       \/ InitDbConnected(s)
       \/ InitDbConnectFails(s)
       \/ GetRoot(s)
       \/ GetEvent(s, {1})
       \/ GetEventFind(s)
       \/ StoreCallThrows(s)
       \/ Retire(s, FALSE)

SpecBoot == InitBoot /\ [][NextBoot]_vars

\* ---------------------------------------------------------------- C14
\* the step runs code of a route handler in slot s
HandlerRuns(s) == reqs'[s] # reqs[s] /\ reqs'[s].op \notin {"idle", "initDb"}

\* the step delivers the response of the request in slot s
Answers(s) == reqs[s].pc # "done" /\ reqs'[s].pc = "done"

Unreachable == ~storeUp \/ ~uriSet

\* C14 as stated: while the store cannot be reached (or the connection string
\* is unset) every request is answered 500 and no route handler runs; and a
\* route handler runs only after the handles have been assigned by an initDb
\* that succeeded.
C14_FailsClosedWhileUnreachable ==
  [][\A s \in Slots :
       /\ Unreachable => ~HandlerRuns(s) /\ (Answers(s) => reqs'[s].status = 500)
       /\ HandlerRuns(s) => isDbReady /\ handles # 0 /\ clients # {}]_vars

\* C14, amended: as long as no initDb has succeeded (isDbReady is unset) and
\* the store cannot be reached (or the connection string is unset), every
\* request is answered 500 "Database initialization failed." by the middleware
\* and no route handler runs; and in every interleaving of first requests a
\* route handler runs only after an initDb whose connect succeeded has
\* assigned the handles and set isDbReady.
C14_InitFailsClosed ==
  [][\A s \in Slots :
       /\ (~isDbReady /\ Unreachable)
            => /\ ~HandlerRuns(s)
               /\ Answers(s) => /\ reqs'[s].status = 500
                                /\ reqs'[s].body = InitFailed
                                /\ reqs'[s].op = "initDb"
       /\ HandlerRuns(s) => isDbReady /\ handles # 0 /\ clients # {}
       /\ (reqs[s].op = "initDb" /\ reqs[s].pc = "done") => ~HandlerRuns(s)]_vars

\* of two first requests in flight together, the one whose connect failed was
\* answered 500 by the middleware and the other, connected later, has been
\* handled by its route
C14_Witness ==
  /\ reqs[1].op = "initDb" /\ reqs[1].pc = "done" /\ reqs[1].status = 500
  /\ reqs[2].op = "get" /\ reqs[2].pc = "done"
  /\ isDbReady /\ handles = 2 /\ made = 2

\* ------------------------------------------- store calls that fail part-way
FailJoins == {[eventId |-> 1, userEmail |-> Bob]}

FailDeletes == {[id |-> 1, requestorEmail |-> Alice]}

NextFail ==
  \/ StoreGoesDown
  \/ StoreComesUp
  \/ \E s \in Slots :
       \/ JoinEvent(s, FailJoins)
       \/ JoinEventFindEvent(s)
       \/ JoinEventFindJoin(s)
       \/ JoinEventInsert(s)
       \/ DeleteEvent(s, FailDeletes)
       \/ DeleteEventFind(s)
       \/ DeleteEventDeleteOne(s)
       \/ DeleteEventDeleteMany(s)
       \/ StoreCallThrows(s)
       \/ Retire(s, FALSE)

SpecFail == InitRace /\ [][NextFail]_vars

\* ---------------------------------------------------------------- C15
\* C15: delete_event is not atomic and is not rolled back.  When the store
\* call that removes the Joins fails after the Event has been removed, the
\* request is answered 500, the Event is still absent after the answer and
\* the Joins, those that reference the removed Event included, are all still
\* there.
C15_DeleteNotRolledBack ==
  [][\A s \in Slots :
       (Step(s, "delete", "deleteMany") /\ ~storeUp)
         => /\ Answered(s, 500)
            /\ reqs'[s].body = [message |-> "Failed to delete event"]
            /\ \A e \in events' : e.id # reqs[s].args.id
            /\ events' = events
            /\ joins' = joins]_vars

\* a delete was answered 500 and left the Event removed and a Join that
\* references it
C15_Witness ==
  \E s \in Slots :
    /\ reqs[s].op = "delete" /\ reqs[s].pc = "done" /\ reqs[s].status = 500
    /\ \A e \in events : e.id # reqs[s].args.id
    /\ \E j \in joins : j.eventId = reqs[s].args.id

\* --------------------------------------------- deletes in flight together
SeedEvent2 ==
  [id |-> 2, title |-> FormB.title, description |-> FormB.description,
   eventType |-> FormB.eventType, thumbnail |-> FormB.thumbnail,
   location |-> FormB.location, eventDate |-> ParseDate(FormB.eventDate),
   creatorEmail |-> Alice, createdAt |-> 0]

\* the Join document POST /join-event stores for event e and user who
SeedJoin(id, e, who) ==
  [id |-> id, eventId |-> e.id, userEmail |-> who, joinedAt |-> 0,
   eventTitle |-> e.title, eventType |-> e.eventType, thumbnail |-> e.thumbnail,
   location |-> e.location, eventDate |-> e.eventDate, creatorEmail |-> e.creatorEmail]

\* two Events of alice, each joined by carol
InitDeletes ==
  /\ events = {SeedEvent, SeedEvent2}
  /\ joins = {SeedJoin(3, SeedEvent, Carol), SeedJoin(4, SeedEvent2, Carol)}
  /\ users = {}
  /\ nextId = 5
  /\ now = 0
  /\ reqs = [s \in Slots |-> Idle]
  /\ last = Idle
  /\ Initialised

ConcurrentDeletes == {[id |-> id, requestorEmail |-> who] : id \in {1, 2}, who \in {Alice, Bob}}

NextDeletes ==
  \E s \in Slots :
       \/ DeleteEvent(s, ConcurrentDeletes)
       \/ DeleteEventFind(s)
       \/ DeleteEventDeleteOne(s)
       \/ DeleteEventDeleteMany(s)
       \/ Retire(s, FALSE)

SpecDeletes == InitDeletes /\ [][NextDeletes]_vars

\* ---------------------------------------------------------------- C16
DeletedOk(s, id) ==
  /\ reqs[s].op = "delete" /\ reqs[s].pc = "done" /\ reqs[s].status = 200
  /\ reqs[s].args.id = id

Gone(id) == (\A e \in events : e.id # id) /\ (\A j \in joins : j.eventId # id)

\* C16: two delete_event requests by the creator for the same Event, in
\* flight together, can both be answered 200.  The removal of an Event that
\* the other request has already removed is no error (the request goes on to
\* its cascade), the cascade always answers 200, and whenever two deletes of
\* the same Event have both been answered 200 the Event and every Join that
\* references it are gone.
C16_ConcurrentDeletes ==
  [][/\ \A s \in Slots :
          /\ Step(s, "delete", "deleteOne")
               => /\ reqs'[s].pc = "deleteMany"
                  /\ \A e \in events' : e.id # reqs[s].args.id
          /\ Step(s, "delete", "deleteMany")
               => Answered(s, 200) /\ Gone(reqs[s].args.id)'
     /\ \A s, o \in Slots, id \in {1, 2} :
          (s # o /\ DeletedOk(s, id)' /\ DeletedOk(o, id)') => Gone(id)']_vars

\* both requests were answered 200 for Event 1, which is gone with its Join
C16_Witness ==
  /\ DeletedOk(1, 1)
  /\ DeletedOk(2, 1)
  /\ Gone(1)
  /\ \E j \in joins : j.eventId = 2

\* ------------------------- join, update and delete of one Event in flight
SnapUpdates == {UpdateBody(1, FormB, Alice)}

NextSnapshot ==
  \E s \in Slots :
       \/ JoinEvent(s, RaceJoins)
       \/ JoinEventFindEvent(s)
       \/ JoinEventFindJoin(s)
       \/ JoinEventInsert(s)
       \/ PutEvent(s, SnapUpdates)
       \/ PutEventFind(s)
       \/ PutEventUpdate(s)
       \/ DeleteEvent(s, FailDeletes)
       \/ DeleteEventFind(s)
       \/ DeleteEventDeleteOne(s)
       \/ DeleteEventDeleteMany(s)
       \/ Retire(s, FALSE)

SpecSnapshot == InitRace /\ [][NextSnapshot]_vars

\* ---------------------------------------------------------------- C17
\* the six fields a Join copies from its Event
Snapshot(title, e) ==
  [title |-> title, eventType |-> e.eventType, thumbnail |-> e.thumbnail,
   location |-> e.location, eventDate |-> e.eventDate, creatorEmail |-> e.creatorEmail]

\* C17: a Join's snapshot is frozen.  join_event reads the Event once, builds
\* the Join from the title, eventType, thumbnail, location, eventDate and
\* creatorEmail of the Event as read, and stores exactly that; afterwards every
\* step leaves every Join as it is, except the cascade of a delete_event of
\* its Event, which removes it; in particular no step of an update_event
\* changes a Join.
C17_SnapshotFrozen ==
  [][/\ \A s \in Slots :
          /\ (Step(s, "join", "findEvent") /\ reqs'[s].pc = "findJoin")
               => reqs'[s].loc \in events /\ reqs'[s].loc.id = reqs[s].args.eventId
          /\ (Step(s, "join", "findJoin") /\ reqs'[s].pc = "insertOne")
               => /\ Snapshot(reqs'[s].loc.eventTitle, reqs'[s].loc)
                       = Snapshot(reqs[s].loc.title, reqs[s].loc)
                  /\ reqs'[s].loc.eventId = reqs[s].loc.id
          /\ Step(s, "join", "insertOne")
               => \E j \in joins' \ joins :
                    /\ joins' = joins \cup {j}
                    /\ j.eventId = reqs[s].loc.eventId
                    /\ j.userEmail = reqs[s].args.userEmail
                    /\ Snapshot(j.eventTitle, j) = Snapshot(reqs[s].loc.eventTitle, reqs[s].loc)
          /\ (reqs[s].op = "update" \/ reqs'[s].op = "update") /\ reqs'[s] # reqs[s]
               => joins' = joins
     /\ \A j \in joins :
          j \in joins' \/ \E s \in Slots : /\ Step(s, "delete", "deleteMany")
                                           /\ reqs[s].args.id = j.eventId]_vars

\* the Event was updated after carol joined: her Join still has the title
\* and date of the Event as it was when she joined
C17_Witness ==
  \E j \in joins, e \in events :
    /\ j.eventId = e.id
    /\ e.title = FormB.title /\ e.eventDate = ParseDate(FormB.eventDate)
    /\ j.eventTitle = FormA.title /\ j.eventDate = ParseDate(FormA.eventDate)

\* ----------------------------------- updates in flight, two Events with Joins
InitFrame ==
  /\ events = {SeedEvent, SeedEvent2}
  /\ joins = {SeedJoin(3, SeedEvent, Carol), SeedJoin(4, SeedEvent2, Carol)}
  /\ users = {SeedAdmin}
  /\ nextId = 5
  /\ now = 0
  /\ reqs = [s \in Slots |-> Idle]
  /\ last = Idle
  /\ Initialised

FormC == [title |-> "River Walk", description |-> "Walk along the river",
          eventType |-> "Donation", thumbnail |-> "https://img/c.png",
          location |-> "Riverside", eventDate |-> IsoText(1)]

FrameUpdates ==
  {UpdateBody(id, f, Alice) : id \in {1, 2}, f \in {FormB, FormC}}
  \cup {UpdateBody(1, FormC, Bob), UpdateBody(3, FormC, Alice)}

NextFrame ==
  \/ Tick
  \/ \E s \in Slots :
       \/ PutEvent(s, FrameUpdates)
       \/ PutEventFind(s)
       \/ PutEventUpdate(s)
       \/ Retire(s, FALSE)

SpecFrame == InitFrame /\ [][NextFrame]_vars

\* ---------------------------------------------------------------- C18
\* C18: a successful update_event overwrites exactly title, description,
\* eventType, thumbnail, location and eventDate of the addressed Event with
\* the values of the request (the date as the instant its text denotes); the
\* Event keeps its id, creatorEmail and createdAt and gets no other field; every
\* other Event, every Join and every User is as before.  No other step of an
\* update_event writes anything.
C18_UpdateFrame ==
  [][\A s \in Slots :
       /\ (Step(s, "update", "updateOne") /\ Answered(s, 200))
            => LET a == reqs[s].args
               IN /\ \A e \in events :
                       IF e.id # a.id THEN e \in events'
                       ELSE [id |-> e.id, title |-> a.title, description |-> a.description,
                             eventType |-> a.eventType, thumbnail |-> a.thumbnail,
                             location |-> a.location, eventDate |-> ParseDate(a.eventDate),
                             creatorEmail |-> e.creatorEmail, createdAt |-> e.createdAt]
                              \in events'
                  /\ Cardinality(events') = Cardinality(events)
                  /\ joins' = joins
                  /\ users' = users
       /\ (reqs'[s].op = "update" /\ reqs'[s] # reqs[s] /\ ~At(s, "update", "updateOne"))
            => UNCHANGED store]_vars

\* Event 1 was updated to the third form: it has the new six values and its
\* creator and createdAt, and Event 2 and both Joins are as they were
C18_Witness ==
  \E s \in Slots :
    /\ reqs[s].op = "update" /\ reqs[s].pc = "done" /\ reqs[s].status = 200
    /\ reqs[s].args.id = 1
    /\ \E e \in events : /\ e.id = 1 /\ e.title = FormC.title /\ e.eventDate = 1
                         /\ e.creatorEmail = Alice /\ e.createdAt = 0
    /\ SeedEvent2 \in events
    /\ joins = {SeedJoin(3, SeedEvent, Carol), SeedJoin(4, SeedEvent2, Carol)}

\* ---------------------------------------------------------------- C19
\* C19: update_event is answered 404 whenever its id resolves to no Event
\* when the handler reads it; and in every interleaving of an update_event
\* with a delete_event of the same Event, an update that is answered 200 has
\* been applied to an Event that exists when its write is executed.
C19_UpdateAppliedToExisting ==
  [][\A s \in Slots :
       /\ (Step(s, "update", "findOne") /\ \A e \in events : e.id # reqs[s].args.id)
            => Answered(s, 404)
       /\ (Step(s, "update", "updateOne") /\ Answered(s, 200))
            => \E e \in events : e.id = reqs[s].args.id]_vars

\* ------------------------------------- lookups of Events that may be missing
LookupJoins ==
  SeqJoins \cup {[eventId |-> 1, userEmail |-> Absent], [eventId |-> NoId, userEmail |-> ""]}

NextLookup ==
  \/ PostEvents(1, {CreateBody(FormA, Alice)})
  \/ PostEventsInsert(1)
  \/ DeleteEvent(1, FailDeletes)
  \/ DeleteEventFind(1)
  \/ DeleteEventDeleteOne(1)
  \/ DeleteEventDeleteMany(1)
  \/ JoinEvent(1, LookupJoins)
  \/ JoinEventFindEvent(1)
  \/ JoinEventFindJoin(1)
  \/ JoinEventInsert(1)
  \/ GetEvent(1, GetIds)
  \/ GetEventFind(1)
  \/ Retire(1, FALSE)

SpecLookup == Init /\ [][NextLookup]_vars

\* ---------------------------------------------------------------- C20
NoSuchEvent(id) == \A e \in events : e.id # id

\* C20: join_event is answered 400 when eventId or userEmail is missing or
\* eventId is no valid id, and 404 when a valid eventId resolves to no Event;
\* none of these requests creates a Join (a join_event writes a Join only in
\* the step that answers 201).  get_event is answered 400 for an invalid id
\* and 404 for a valid id that resolves to no Event.
C20_MissingOrInvalid ==
  [][\A s \in Slots :
       /\ \A a \in LookupJoins :
            (Received(s, "join") /\ reqs'[s].args = a
               /\ (a.eventId \in {NoId, BadId} \/ a.userEmail \in {"", Absent}))
              => Answered(s, 400) /\ joins' = joins
       /\ (Step(s, "join", "findEvent") /\ NoSuchEvent(reqs[s].args.eventId))
            => Answered(s, 404) /\ joins' = joins
       /\ (reqs'[s].op = "join" /\ reqs'[s] # reqs[s] /\ joins' # joins)
            => Answered(s, 201)
       /\ \A id \in GetIds :
            (Received(s, "get") /\ reqs'[s].args.id = id /\ id = BadId)
              => Answered(s, 400)
       /\ (Step(s, "get", "findOne") /\ NoSuchEvent(reqs[s].args.id))
            => Answered(s, 404)]_vars

\* a join of Event 1, which existed and has been deleted, was answered 404
\* and there is no Join
C20_Witness ==
  /\ reqs[1].op = "join" /\ reqs[1].pc = "done" /\ reqs[1].status = 404
  /\ reqs[1].args.eventId = 1
  /\ nextId > 1
  /\ NoSuchEvent(1)
  /\ joins = {}

\* ===================================================== the listing routes
\* the documents as res.json sends them, in the order of the cursor
EventsToJSON(docs) ==
  LET sorted == SortByEventDate(docs)
  IN [i \in 1..Len(sorted) |-> EventToJSON(sorted[i])]

\* ------------------------------------------------------------ GET /events
GetEvents(s) ==
  /\ Ready(s)
  /\ reqs' = [reqs EXCEPT ![s] = Await("list", <<>>, "find", <<>>)]
  /\ UNCHANGED <<conn, events, joins, users, nextId, now, last>>

\* find({}).sort({ eventDate: 1 }).toArray()
GetEventsFind(s) ==
  /\ reqs[s].op = "list"
  /\ reqs[s].pc = "find"
  /\ storeUp
  /\ LET out == EventsToJSON(events)
     IN reqs' = [reqs EXCEPT ![s] = Respond(@, 200, [count |-> Len(out), events |-> out])]
  /\ UNCHANGED <<conn, events, joins, users, nextId, now, last>>

\* --------------------------------------------------- GET /events/upcoming
\* mutant: an Event dated at the clock value is let through
IsUpcoming_Inclusive(d, t) == d >= t

\* eventDate: { $gt: now }
IsUpcoming(d, t) == d > t

\* the clock is read when the request is received
GetUpcoming(s) ==
  /\ Ready(s)
  /\ reqs' = [reqs EXCEPT ![s] = Await("upcoming", <<>>, "find", [now |-> now])]
  /\ UNCHANGED <<conn, events, joins, users, nextId, now, last>>

GetUpcomingFind(s) ==
  /\ reqs[s].op = "upcoming"
  /\ reqs[s].pc = "find"
  /\ storeUp
  /\ LET out == EventsToJSON({e \in events : IsUpcoming(e.eventDate, reqs[s].loc.now)})
     IN reqs' = [reqs EXCEPT ![s] = Respond(@, 200, [count |-> Len(out), events |-> out])]
  /\ UNCHANGED <<conn, events, joins, users, nextId, now, last>>

\* ------------------------------------------------------- GET /events/user
GetUserEvents(s, emails) ==
  /\ Ready(s)
  /\ \E email \in emails :
       reqs' = [reqs EXCEPT ![s] =
                  IF Falsy(email)
                    THEN Reply("userEvents", [email |-> email], 400,
                               [message |-> "User email is required."])
                  ELSE Await("userEvents", [email |-> email], "find", <<>>)]
  /\ UNCHANGED <<conn, events, joins, users, nextId, now, last>>

\* find({ creatorEmail: email }).sort({ eventDate: 1 }).toArray()
GetUserEventsFind(s) ==
  /\ reqs[s].op = "userEvents"
  /\ reqs[s].pc = "find"
  /\ storeUp
  /\ LET out == EventsToJSON({e \in events : e.creatorEmail = reqs[s].args.email})
     IN reqs' = [reqs EXCEPT ![s] = Respond(@, 200, [count |-> Len(out), events |-> out])]
  /\ UNCHANGED <<conn, events, joins, users, nextId, now, last>>

\* ------------------------------------------------ listings, one at a time
ListCreates == {CreateBody(FormA, Alice), CreateBody(FormB, Bob)}

ListJoins == {[eventId |-> id, userEmail |-> Carol] : id \in {1, 2}}

NextLists ==
  \/ Tick
  \/ PostEvents(1, ListCreates)
  \/ PostEventsInsert(1)
  \/ JoinEvent(1, ListJoins)
  \/ JoinEventFindEvent(1)
  \/ JoinEventFindJoin(1)
  \/ JoinEventInsert(1)
  \/ GetEvents(1)
  \/ GetEventsFind(1)
  \/ GetUpcoming(1)
  \/ GetUpcomingFind(1)
  \/ GetUserEvents(1, {Alice, Carol, ""})
  \/ GetUserEventsFind(1)
  \/ GetJoined(1, {Carol, Absent})
  \/ GetJoinedFind(1)
  \/ Retire(1, FALSE)

SpecLists == Init /\ [][NextLists]_vars

\* ---------------------------------------------------------------- C21
\* the listing carries each of the documents ids exactly once, in
\* non-decreasing order of the date its eventDate text denotes
ListsExactly(list, ids) ==
  /\ Len(list) = Cardinality(ids)
  /\ {list[i].id : i \in 1..Len(list)} = ids
  /\ \A i, j \in 1..Len(list) :
       i < j => ParseDate(list[i].eventDate) <= ParseDate(list[j].eventDate)

CatchSyncs == {SyncBody(Bob, "Al", Absent)}

CatchRoles == {RoleBody(Carol, "user", Alice)}

NextCatch ==
  \/ StoreGoesDown
  \/ StoreComesUp
  \/ PostEvents(1, {CreateBody(FormC, Bob)})
  \/ PostEventsInsert(1)
  \/ GetEvent(1, {1})
  \/ GetEventFind(1)
  \/ PutEvent(1, SnapUpdates)
  \/ PutEventFind(1)
  \/ PutEventUpdate(1)
  \/ DeleteEvent(1, FailDeletes)
  \/ DeleteEventFind(1)
  \/ DeleteEventDeleteOne(1)
  \/ DeleteEventDeleteMany(1)
  \/ JoinEvent(1, FailJoins)
  \/ JoinEventFindEvent(1)
  \/ JoinEventFindJoin(1)
  \/ JoinEventInsert(1)
  \/ GetJoined(1, {Carol})
  \/ GetJoinedFind(1)
  \/ GetEvents(1)
  \/ GetEventsFind(1)
  \/ GetUpcoming(1)
  \/ GetUpcomingFind(1)
  \/ GetUserEvents(1, {Alice})
  \/ GetUserEventsFind(1)
  \/ GetStats(1)
  \/ StatsCountEvents(1)
  \/ StatsCountJoined(1)
  \/ StatsAggCreators(1)
  \/ StatsAggParticipants(1)
  \/ UsersSync(1, CatchSyncs)
  \/ UsersSyncFind(1)
  \/ UsersSyncInsert(1)
  \/ UsersSyncUpdate(1)
  \/ UsersSyncRefind(1)
  \/ GetUser(1, {Bob})
  \/ GetUserFind(1)
  \/ PatchRole(1, CatchRoles)
  \/ PatchRoleFindRequestor(1)
  \/ PatchRoleUpdate(1)
  \/ GetUsers(1, {[requestorEmail |-> Alice]})
  \/ GetUsersFindRequestor(1)
  \/ GetUsersFind(1)
  \/ StoreCallThrows(1)
  \/ Retire(1, FALSE)

\* one Event of alice and one admin in the store
InitCatch ==
  /\ events = {SeedEvent}
  /\ joins = {}
  /\ users = {SeedAdmin}
  /\ nextId = 2
  /\ now = 0
  /\ reqs = [s \in Slots |-> Idle]
  /\ last = Idle
  /\ Initialised

SpecCatch == InitCatch /\ [][NextCatch]_vars

\* ---------------------------------------------------------------- C22
CatchMessages ==
  {"Failed to load statistics", "Failed to sync user.", "Failed to get user.",
   "Failed to update user role.", "Failed to get users.", "Failed to create event",
   "Failed to load events", "Failed to load upcoming events", "Failed to load user events",
   "Failed to load event details", "Failed to update event", "Failed to join event.",
   "Failed to delete event", "Failed to load joined events"}

\* C22: a store call of a route handler that fails (whatever the call: find,
\* insert, update, delete, count, aggregate) is answered by that handler with
\* 500 and its failure message; the failing step writes nothing, leaves no
\* request unanswered and leaves the connection state as it was, so that later
\* requests are received and answered as before.
C22_StoreFailureCaught ==
  [][\A s \in Slots :
       (InFlight(s) /\ ~storeUp /\ reqs'[s] # reqs[s])
         => /\ Answered(s, 500)
            /\ DOMAIN reqs'[s].body = {"message"}
            /\ reqs'[s].body.message \in CatchMessages
            /\ reqs'[s].op = reqs[s].op
            /\ UNCHANGED <<events, joins, users, isDbReady, handles, clients>>]_vars

\* a later request is answered after a failure: Event 1 is gone and its Join
\* is still there, which only a delete whose cascade failed (answered 500)
\* leaves behind, and a get_event sent afterwards has been answered 404
C22_Witness ==
  /\ reqs[1].op = "get" /\ reqs[1].pc = "done" /\ reqs[1].status = 404
  /\ NoSuchEvent(1)
  /\ \E j \in joins : j.eventId = 1
  /\ storeUp

\* --------------------------------- a restarted process: progress of requests
\* index.js has been loaded again over a store that holds one Event
InitRestart ==
  /\ events = {SeedEvent}
  /\ joins = {}
  /\ users = {}
  /\ nextId = 2
  /\ now = 0
  /\ reqs = [s \in Slots |-> Idle]
  /\ last = Idle
  /\ isDbReady = FALSE
  /\ client = 0
  /\ handles = 0
  /\ clients = {}
  /\ made = 0
  /\ storeUp \in BOOLEAN
  /\ uriSet \in BOOLEAN

LiveUpdates ==
  {UpdateBody(1, FormB, Alice), UpdateBody(1, FormB, Bob), UpdateBody(2, FormB, Alice),
   UpdateBody(1, [FormA EXCEPT !.eventDate = Garbage], Alice), UpdateBody(BadId, FormB, Alice)}

\* the route handler of a request starts
Dispatch(s) == GetRoot(s) \/ PutEvent(s, LiveUpdates)

\* an awaited call of the request in slot s returns, with a result or an error
Returns(s) ==
  \/ InitDbConnected(s)
  \/ InitDbConnectFails(s)
  \/ PutEventFind(s)
  \/ PutEventUpdate(s)
  \/ StoreCallThrows(s)

\* each slot takes one request and keeps its response
NextLive ==
  \/ StoreGoesDown
  \/ StoreComesUp
  \/ \E s \in Slots :
       \/ InitDbStart(s)
       \/ Dispatch(s)
       \/ Returns(s)

\* the request in slot s is taken one step on: its awaited call returns, or,
\* having passed the middleware, it is handed to its route handler
Proceeds(s) == Returns(s) \/ (reqs[s].pc = "next" /\ Dispatch(s))

\* every awaited call eventually returns and next() starts the handler
SpecLive ==
  /\ InitRestart
  /\ [][NextLive]_vars
  /\ \A s \in Slots : WF_vars(Proceeds(s))

AheadOf(t) == {DateOnly(k) : k \in {j \in Time : j >= t + 2}}
Before(t) == {DateOnly(k) : k \in {j \in Time : j < t}}

ScenarioCreate ==
  /\ last = Idle
  /\ PostEvents(1, {CreateBody([FormA EXCEPT !.eventDate = d], Alice) : d \in AheadOf(now)})

ScenarioGet ==
  /\ last.op = "create"
  /\ GetEvent(1, {last.body.eventId})

ScenarioUpdateByBob ==
  /\ last.op = "get"
  /\ PutEvent(1, {UpdateBody(last.args.id, FormB, Bob)})

ScenarioUpdatePast ==
  /\ last.op = "update" /\ last.args.requestorEmail = Bob
  /\ PutEvent(1, {UpdateBody(last.args.id, [FormB EXCEPT !.eventDate = d], Alice) :
                    d \in Before(now)})

ScenarioJoin ==
  /\ last.op = "update" /\ last.args.requestorEmail = Alice
  /\ JoinEvent(1, {[eventId |-> last.args.id, userEmail |-> Carol]})

ScenarioJoinAgain ==
  /\ last.op = "join" /\ last.status = 201
  /\ JoinEvent(1, {last.args})

ScenarioDelete ==
  /\ last.op = "join" /\ last.status = 400
  /\ DeleteEvent(1, {[id |-> last.args.eventId, requestorEmail |-> Alice]})

ScenarioJoined ==
  /\ last.op = "delete"
  /\ GetJoined(1, {Carol})

NextScenario ==
  \/ Tick
  \/ ScenarioCreate
  \/ PostEventsInsert(1)
  \/ ScenarioGet
  \/ GetEventFind(1)
  \/ ScenarioUpdateByBob
  \/ ScenarioUpdatePast
  \/ PutEventFind(1)
  \/ ScenarioJoin
  \/ ScenarioJoinAgain
  \/ JoinEventFindEvent(1)
  \/ JoinEventFindJoin(1)
  \/ JoinEventInsert(1)
  \/ ScenarioDelete
  \/ DeleteEventFind(1)
  \/ DeleteEventDeleteOne(1)
  \/ DeleteEventDeleteMany(1)
  \/ ScenarioJoined
  \/ GetJoinedFind(1)
  \/ Retire(1, TRUE)

SpecScenario == Init /\ [][NextScenario]_vars

\* ---------------------------------------------------------------- C24
\* C24: on an empty store the scenario has exactly these outcomes: the create
\* by alice with a date well ahead is answered 201 with an id; the get of that
\* id returns the Event as submitted; the update by bob is answered 403; the
\* update by alice with a past date is answered 400; neither update changes
\* the Event; carol's join is answered 201 and the same join again 400; the
\* delete by alice is answered 200; carol's joined list is then empty.
C24_Scenario ==
  /\ [](reqs[1].pc = "done" =>
          LET r == reqs[1]
          IN CASE r.op = "create" -> r.status = 201 /\ r.body.eventId \in 1..MaxIds
               [] r.op = "get" -> /\ r.status = 200
                                  /\ r.body.event.id = last.body.eventId
                                  /\ SameAsSubmitted(r.body.event, last.args)
               [] r.op = "update" -> r.status = IF r.args.requestorEmail = Bob THEN 403 ELSE 400
               [] r.op = "join" -> r.status = IF last.op = "join" THEN 400 ELSE 201
               [] r.op = "delete" -> r.status = 200
               [] r.op = "joined" -> r.status = 200 /\ r.body.count = 0 /\ joins = {} /\ events = {})
  /\ [][(reqs[1].op = "update" \/ reqs'[1].op = "update") => events' = events]_vars

\* the whole scenario has run: carol's empty list follows the delete
C24_Witness ==
  /\ reqs[1].op = "joined" /\ reqs[1].pc = "done" /\ reqs[1].status = 200
  /\ reqs[1].body.count = 0
  /\ last.op = "delete" /\ last.status = 200
  /\ nextId = 3

\* ------------------------------------- user administration on an empty store
InitNoUsers ==
  /\ events = {}
  /\ joins = {}
  /\ users = {}
  /\ nextId = 1
  /\ now = 0
  /\ reqs = [s \in Slots |-> Idle]
  /\ last = Idle
  /\ Initialised

FirstSyncs == {SyncBody(Alice, "Al", Absent)}

FirstRoles ==
  {RoleBody(Alice, "admin", Alice), RoleBody(Alice, "owner", Alice)}

FirstLists == {[requestorEmail |-> e] : e \in {Alice, Absent}}

NextNoUsers ==
  \E s \in Slots :
       \/ UsersSync(s, FirstSyncs)
       \/ UsersSyncFind(s)
       \/ UsersSyncInsert(s)
       \/ UsersSyncUpdate(s)
       \/ UsersSyncRefind(s)
       \/ PatchRole(s, FirstRoles)
       \/ PatchRoleFindRequestor(s)
       \/ GetUsers(s, FirstLists)
       \/ GetUsersFindRequestor(s)
       \/ Retire(s, FALSE)

SpecNoUsers == InitNoUsers /\ [][NextNoUsers]_vars

\* ---------------------------------------------------------------- C25
\* C25: starting from an empty User collection, whatever the interleaving of
\* sync_user, set_user_role and list_all_users requests, no User ever has role
\* "admin", every set_user_role is answered 400 or 403 and every
\* list_all_users is answered 400 or 403.
C25_NoAdminFromEmpty ==
  /\ \A u \in users : u.role = "user"
  /\ \A s \in Slots :
       (reqs[s].pc = "done" /\ reqs[s].op \in {"role", "users"})
         => reqs[s].status \in {400, 403}
  /\ \A s \in Slots : reqs[s].op \in {"role", "users"} => reqs[s].pc \notin {"updateOne", "find"}

\* alice exists; her request to make herself admin was refused with 403 and
\* so was her listing of the Users
C25_Witness ==
  /\ \E u \in users : u.email = Alice
  /\ \E s, r \in Slots :
       /\ reqs[s].op = "role" /\ reqs[s].pc = "done" /\ reqs[s].status = 403
       /\ reqs[s].args = RoleBody(Alice, "admin", Alice)
       /\ reqs[r].op = "users" /\ reqs[r].pc = "done" /\ reqs[r].status = 403
       /\ reqs[r].args.requestorEmail = Alice

\* ---------------------------------------------------------------- C26
\* C26 as stated: in every state where no request is in flight (and no store
\* call has failed), every Join's eventId is the id of an existing Event, also
\* when a join_event ran concurrently with the creator's delete_event.
C26_JoinsReferToEvents ==
  (\A s \in Slots : ~InFlight(s))
    => \A j \in joins : \E e \in events : e.id = j.eventId

\* -------------------------- updates and a delete of one Event, in flight together
MixUpdates == {UpdateBody(1, FormB, Alice), UpdateBody(1, FormC, Alice)}

NextMix ==
  \E s \in Slots :
       \/ PutEvent(s, MixUpdates)
       \/ PutEventFind(s)
       \/ PutEventUpdate(s)
       \/ DeleteEvent(s, FailDeletes)
       \/ DeleteEventFind(s)
       \/ DeleteEventDeleteOne(s)
       \/ DeleteEventDeleteMany(s)
       \/ Retire(s, FALSE)

SpecMix == InitRace /\ [][NextMix]_vars

\* the six mutable fields of Event e are those of update request a
CarriesForm(e, a) ==
  /\ e.title = a.title
  /\ e.description = a.description
  /\ e.eventType = a.eventType
  /\ e.thumbnail = a.thumbnail
  /\ e.location = a.location
  /\ e.eventDate = ParseDate(a.eventDate)

\* ---------------------------------------------------------------- C27
\* C27: concurrent successful update_event requests by the creator on one
\* Event never leave a mixture of their fields: the Event is as created or its
\* six mutable fields are all those of one request, and each applied write
\* leaves them as those of its own request (so the last write decides); an
\* update_event whose write comes after a concurrent delete_event removed the
\* Event does not re-create it.
C27_NoMixNoRecreate ==
  /\ [](\A e \in events : e = SeedEvent \/ \E a \in MixUpdates : CarriesForm(e, a))
  /\ [][\A s \in Slots :
          Step(s, "update", "updateOne")
            => IF \E e \in events : e.id = reqs[s].args.id
                 THEN \E e \in events' : e.id = reqs[s].args.id /\ CarriesForm(e, reqs[s].args)
               ELSE events' = events /\ reqs'[s].status = 200]_vars

\* two updates with different forms were both answered 200 and the Event
\* carries the second form whole
C27_Witness ==
  /\ reqs[1].op = "update" /\ reqs[1].pc = "done" /\ reqs[1].status = 200
  /\ reqs[1].args = UpdateBody(1, FormB, Alice) /\ reqs[1].body.modifiedCount = 1
  /\ reqs[2].op = "update" /\ reqs[2].pc = "done" /\ reqs[2].status = 200
  /\ reqs[2].args = UpdateBody(1, FormC, Alice) /\ reqs[2].body.modifiedCount = 1
  /\ \E e \in events : e.id = 1 /\ CarriesForm(e, reqs[2].args)

\* an update was answered 200 with nothing modified after the delete was
\* answered 200, and the store holds no Event
C27_WitnessAfterDelete ==
  /\ reqs[1].op = "update" /\ reqs[1].pc = "done" /\ reqs[1].status = 200
  /\ reqs[1].body.modifiedCount = 0
  /\ reqs[2].op = "delete" /\ reqs[2].pc = "done" /\ reqs[2].status = 200
  /\ events = {}

\* ------------------------- every route, with requests that are refused
RejectCreates == {CreateBody(FormC, Bob), CreateBody([FormA EXCEPT !.eventDate = Garbage], Alice)}
RejectDeletes ==
  {[id |-> 1, requestorEmail |-> Alice], [id |-> 1, requestorEmail |-> Bob],
   [id |-> BadId, requestorEmail |-> Alice]}
RejectJoins == {[eventId |-> 1, userEmail |-> Carol], [eventId |-> 1, userEmail |-> Absent]}
RejectSyncs == {SyncBody(Bob, "Al", Absent), SyncBody("", "Al", Absent)}
RejectRoles ==
  {RoleBody(Bob, "admin", Alice), RoleBody(Bob, "owner", Alice), RoleBody(Alice, "user", Carol)}
RejectLists == {[requestorEmail |-> e] : e \in {Alice, Carol, Absent}}

NextReject ==
  \/ PostEvents(1, RejectCreates)
  \/ PostEventsInsert(1)
  \/ GetEvent(1, {1, BadId})
  \/ GetEventFind(1)
  \/ PutEvent(1, LiveUpdates)
  \/ PutEventFind(1)
  \/ PutEventUpdate(1)
  \/ DeleteEvent(1, RejectDeletes)
  \/ DeleteEventFind(1)
  \/ DeleteEventDeleteOne(1)
  \/ DeleteEventDeleteMany(1)
  \/ JoinEvent(1, RejectJoins)
  \/ JoinEventFindEvent(1)
  \/ JoinEventFindJoin(1)
  \/ JoinEventInsert(1)
  \/ GetJoined(1, {Carol, Absent})
  \/ GetJoinedFind(1)
  \/ GetEvents(1)
  \/ GetEventsFind(1)
  \/ GetUpcoming(1)
  \/ GetUpcomingFind(1)
  \/ GetUserEvents(1, {Alice, ""})
  \/ GetUserEventsFind(1)
  \/ GetStats(1)
  \/ StatsCountEvents(1)
  \/ StatsCountJoined(1)
  \/ StatsAggCreators(1)
  \/ StatsAggParticipants(1)
  \/ UsersSync(1, RejectSyncs)
  \/ UsersSyncFind(1)
  \/ UsersSyncInsert(1)
  \/ UsersSyncUpdate(1)
  \/ UsersSyncRefind(1)
  \/ GetUser(1, {Bob})
  \/ GetUserFind(1)
  \/ PatchRole(1, RejectRoles)
  \/ PatchRoleFindRequestor(1)
  \/ PatchRoleUpdate(1)
  \/ GetUsers(1, RejectLists)
  \/ GetUsersFindRequestor(1)
  \/ GetUsersFind(1)
  \/ Retire(1, FALSE)

SpecReject == InitCatch /\ [][NextReject]_vars

\* the routes the claim calls read-only
ReadOnlyOps == {"list", "upcoming", "userEvents", "get", "joined", "user", "users", "stats"}

\* request r has made a write and has further steps to take
WrittenAt(r) ==
  \/ r.op = "delete" /\ r.pc = "deleteMany"
  \/ r.op = "sync" /\ r.pc = "refind"

\* ---------------------------------------------------------------- C28
\* C28: a request answered 400, 403 or 404 leaves Events, Joins and Users as
\* they were: the step that gives such an answer writes nothing and is never
\* taken by a request that has written; a step that writes either gives a 200
\* or 201 answer or leaves the request past its checks; and no step of a
\* read-only route writes, whatever its response.
C28_RejectedWritesNothing ==
  [][\A s \in Slots :
       reqs'[s] # reqs[s] =>
         /\ (reqs'[s].pc = "done" /\ reqs'[s].status \in {400, 403, 404})
              => (<<events, joins, users>>' = <<events, joins, users>> /\ ~WrittenAt(reqs[s]))
         /\ <<events, joins, users>>' # <<events, joins, users>>
              => \/ reqs'[s].pc = "done" /\ reqs'[s].status \in {200, 201}
                 \/ WrittenAt(reqs'[s])
         /\ reqs[s].op \in ReadOnlyOps
              => <<events, joins, users>>' = <<events, joins, users>>]_vars

\* bob's delete of alice's Event was answered 403 on a store that holds the
\* Event, a Join of it and two Users
C28_Witness ==
  /\ reqs[1].op = "delete" /\ reqs[1].pc = "done" /\ reqs[1].status = 403
  /\ \E e \in events : e.id = 1
  /\ \E j \in joins : j.eventId = 1
  /\ Cardinality(users) = 2

\* ------------------------------------------------ GET /seed-demo-events
\* the literal demoEvents: the six text fields and the argument of addDays
DemoEvents ==
  <<
    [title |-> "City Park Cleanup Drive",
     description |-> "Join us to clean up the city park and make it a cleaner space for everyone. We'll be collecting trash, planting flowers, and beautifying the park area. All volunteers welcome! Bring gloves and water bottles.",
     eventType |-> "Cleanup",
     thumbnail |-> "https://images.unsplash.com/photo-1600596542815-ffad4c1539a9?w=800&h=600&fit=crop&q=80",
     location |-> "City Park, Main Gate, Downtown",
     days |-> 3, creatorEmail |-> "demo1@example.com"],
    [title |-> "Tree Plantation Day",
     description |-> "Plant trees in the community area and help us make the city greener. We'll provide all necessary tools and saplings. Let's work together for a sustainable future! Perfect for families and nature lovers.",
     eventType |-> "Plantation",
     thumbnail |-> "https://images.unsplash.com/photo-1464226184884-fa280b87c399?w=800&h=600&fit=crop&q=80",
     location |-> "Community Ground, Sector 5",
     days |-> 7, creatorEmail |-> "demo2@example.com"],
    [title |-> "Food Donation for Street Children",
     description |-> "Distribute food packs and clothes to underprivileged children. Help us bring smiles to those in need. Your contribution matters! We'll be serving hot meals and distributing essential items.",
     eventType |-> "Donation",
     thumbnail |-> "https://images.unsplash.com/photo-1559027615-cd4628902d4a?w=800&h=600&fit=crop&q=80",
     location |-> "Central Bus Stand Area",
     days |-> 10, creatorEmail |-> "demo3@example.com"],
    [title |-> "Road Safety Awareness Campaign",
     description |-> "Raise awareness about road safety rules among drivers and pedestrians. Educational sessions, demonstrations, and free safety equipment distribution. Learn life-saving road safety tips!",
     eventType |-> "Awareness",
     thumbnail |-> "https://images.unsplash.com/photo-1559027615-cd4628902d4a?w=800&h=600&fit=crop&q=80",
     location |-> "City Square, Near Traffic Signal",
     days |-> 5, creatorEmail |-> "demo4@example.com"],
    [title |-> "Free Health Checkup Camp",
     description |-> "Free basic health checkup and consultation for low-income families. Blood pressure, sugar level, and general health screening available. Qualified doctors and medical professionals will be present.",
     eventType |-> "Health Camp",
     thumbnail |-> "https://images.unsplash.com/photo-1576091160399-112ba8d25d1f?w=800&h=600&fit=crop&q=80",
     location |-> "Community Clinic, Block C",
     days |-> 14, creatorEmail |-> "demo5@example.com"],
    [title |-> "Beach Cleanup Initiative",
     description |-> "Join us for a beach cleanup to protect marine life. We'll collect plastic waste and debris from the shoreline. Bring your friends and family! Help preserve our beautiful coastline.",
     eventType |-> "Cleanup",
     thumbnail |-> "https://images.unsplash.com/photo-1506905925346-21bda4d32df4?w=800&h=600&fit=crop&q=80",
     location |-> "Sunset Beach, Coastal Road",
     days |-> 6, creatorEmail |-> "demo1@example.com"],
    [title |-> "Community Garden Project",
     description |-> "Help us establish a community garden where neighbors can grow fresh vegetables. Learn gardening techniques and contribute to food security. All skill levels welcome!",
     eventType |-> "Plantation",
     thumbnail |-> "https://images.unsplash.com/photo-1416879595882-3373a0480b5b?w=800&h=600&fit=crop&q=80",
     location |-> "Community Center, Green Valley",
     days |-> 9, creatorEmail |-> "demo2@example.com"],
    [title |-> "Winter Clothing Drive",
     description |-> "Collect and distribute warm clothing to homeless individuals. Coats, blankets, and winter accessories needed. Let's keep everyone warm this winter! Drop off donations or volunteer to help distribute.",
     eventType |-> "Donation",
     thumbnail |-> "https://images.unsplash.com/photo-1521737604893-d14cc237f11d?w=800&h=600&fit=crop&q=80",
     location |-> "Community Hall, Main Street",
     days |-> 12, creatorEmail |-> "demo3@example.com"],
    [title |-> "Mental Health Awareness Workshop",
     description |-> "Educational workshop on mental health awareness, stress management, and self-care techniques. Open to all community members. Learn valuable coping strategies and support resources.",
     eventType |-> "Awareness",
     thumbnail |-> "https://images.unsplash.com/photo-1506126613408-eca07ce68773?w=800&h=600&fit=crop&q=80",
     location |-> "Community Center, Room 201",
     days |-> 8, creatorEmail |-> "demo4@example.com"],
    [title |-> "Blood Donation Camp",
     description |-> "Organize a blood donation camp in collaboration with local hospital. Your donation can save lives. All donors will receive a certificate and refreshments. Every drop counts!",
     eventType |-> "Health Camp",
     thumbnail |-> "https://images.unsplash.com/photo-1576091160550-2173dba999ef?w=800&h=600&fit=crop&q=80",
     location |-> "City Hospital, Ground Floor",
     days |-> 11, creatorEmail |-> "demo5@example.com"],
    [title |-> "Neighborhood Recycling Drive",
     description |-> "Promote recycling in our neighborhood. Collect recyclable materials and educate residents about proper waste management practices. Help create a sustainable community!",
     eventType |-> "Cleanup",
     thumbnail |-> "https://images.unsplash.com/photo-1611974789855-9c2a0a7236a3?w=800&h=600&fit=crop&q=80",
     location |-> "Recycling Center, Industrial Area",
     days |-> 13, creatorEmail |-> "demo1@example.com"],
    [title |-> "Educational Support Program",
     description |-> "Provide free tutoring and educational support to underprivileged students. Help shape the future of our community! Volunteers needed for math, science, and language subjects.",
     eventType |-> "Awareness",
     thumbnail |-> "https://images.unsplash.com/photo-1503676260728-1c00da094a0b?w=800&h=600&fit=crop&q=80",
     location |-> "Public Library, Study Hall",
     days |-> 15, creatorEmail |-> "demo2@example.com"],
    [title |-> "River Cleanup Project",
     description |-> "Help clean up our local river and protect aquatic life. We'll remove trash, debris, and pollutants from the riverbanks. Water safety equipment will be provided.",
     eventType |-> "Cleanup",
     thumbnail |-> "https://images.unsplash.com/photo-1544551763-46a013bb70d5?w=800&h=600&fit=crop&q=80",
     location |-> "Riverside Park, North Bridge",
     days |-> 4, creatorEmail |-> "demo1@example.com"],
    [title |-> "Urban Forest Development",
     description |-> "Create an urban forest in the heart of the city. Plant native trees and learn about urban forestry. This project will improve air quality and provide green spaces for future generations.",
     eventType |-> "Plantation",
     thumbnail |-> "https://images.unsplash.com/photo-1441974231531-c6227db76b6e?w=800&h=600&fit=crop&q=80",
     location |-> "Urban Development Zone, Block 7",
     days |-> 16, creatorEmail |-> "demo2@example.com"],
    [title |-> "Book Donation Drive",
     description |-> "Collect books for underprivileged children and community libraries. Fiction, non-fiction, textbooks, and children's books all welcome. Help spread the joy of reading!",
     eventType |-> "Donation",
     thumbnail |-> "https://images.unsplash.com/photo-1481627834876-b7833e03f557?w=800&h=600&fit=crop&q=80",
     location |-> "Central Library, Main Entrance",
     days |-> 18, creatorEmail |-> "demo3@example.com"],
    [title |-> "Digital Literacy Workshop",
     description |-> "Teach basic computer skills and internet usage to senior citizens and underprivileged youth. Help bridge the digital divide in our community. All equipment provided.",
     eventType |-> "Awareness",
     thumbnail |-> "https://images.unsplash.com/photo-1522202176988-66273c2fd55f?w=800&h=600&fit=crop&q=80",
     location |-> "Community Tech Center, Floor 2",
     days |-> 20, creatorEmail |-> "demo4@example.com"],
    [title |-> "Eye Care Screening Camp",
     description |-> "Free eye checkup and vision screening for all ages. Glasses distribution for those in need. Professional optometrists will conduct the examinations.",
     eventType |-> "Health Camp",
     thumbnail |-> "https://images.unsplash.com/photo-1576091160550-2173dba999ef?w=800&h=600&fit=crop&q=80",
     location |-> "Community Health Center, Main Hall",
     days |-> 17, creatorEmail |-> "demo5@example.com"],
    [title |-> "Plastic-Free Community Initiative",
     description |-> "Launch a campaign to reduce plastic usage in our community. Educational sessions, reusable bag distribution, and plastic collection drive. Let's make our community plastic-free!",
     eventType |-> "Awareness",
     thumbnail |-> "https://images.unsplash.com/photo-1621451537084-482c73073a0f?w=800&h=600&fit=crop&q=80",
     location |-> "Community Plaza, Central Area",
     days |-> 19, creatorEmail |-> "demo1@example.com"]
  >>

\* addDays(d) on the Date read on receipt; a clock unit stands for a day here
AddDays(t, d) == t + d

GetSeed(s) ==
  /\ Ready(s)
  /\ reqs' = [reqs EXCEPT ![s] = Await("seed", <<>>, "insertMany", [now |-> now])]
  /\ UNCHANGED <<conn, events, joins, users, nextId, now, last>>

\* eventsCollection.insertMany(demoEvents), then the response
GetSeedInsert(s) ==
  /\ reqs[s].op = "seed"
  /\ reqs[s].pc = "insertMany"
  /\ storeUp
  /\ nextId <= MaxIds
  /\ LET t == reqs[s].loc.now
         doc(i) == [id |-> nextId + i - 1, title |-> DemoEvents[i].title,
                    description |-> DemoEvents[i].description,
                    eventType |-> DemoEvents[i].eventType,
                    thumbnail |-> DemoEvents[i].thumbnail,
                    location |-> DemoEvents[i].location,
                    eventDate |-> AddDays(t, DemoEvents[i].days),
                    creatorEmail |-> DemoEvents[i].creatorEmail, createdAt |-> t]
     IN /\ events' = events \cup {doc(i) : i \in 1..Len(DemoEvents)}
        /\ nextId' = nextId + Len(DemoEvents)
        /\ reqs' = [reqs EXCEPT ![s] =
                      Respond(@, 200, [message |-> "Demo events inserted successfully.",
                                       insertedCount |-> Len(DemoEvents)])]
  /\ UNCHANGED <<conn, joins, users, now, last>>

\* ------------------------- the three routes that store an eventDate
DatedCreates == {CreateBody([FormA EXCEPT !.eventDate = DateOnly(k)], Alice) : k \in Time}

DatedUpdates ==
  {UpdateBody(1, [FormB EXCEPT !.eventDate = IsoText(k)], who) :
     k \in Time, who \in {Alice, "demo1@example.com"}}

NextDates ==
  \/ Tick
  \/ PostEvents(1, DatedCreates)
  \/ PostEventsInsert(1)
  \/ PutEvent(1, DatedUpdates)
  \/ PutEventFind(1)
  \/ PutEventUpdate(1)
  \/ GetSeed(1)
  \/ GetSeedInsert(1)
  \/ Retire(1, FALSE)

SpecDates == Init /\ [][NextDates]_vars

\* ---------------------------------------------------------------- C29
\* C29 as stated: every Event stored by create_event or by seed-demo-events
\* has eventDate strictly later than its createdAt, and a successful
\* update_event keeps it so, although create_event reads the clock twice.
C29_DateAfterCreation ==
  \A e \in events : e.eventDate > e.createdAt

\* what does hold: the Events of seed-demo-events, and every Event as a
\* successful update_event leaves it, have eventDate after createdAt
C29_SeedAndUpdateKeepOrder ==
  /\ [](\A e \in events : e.creatorEmail # Alice => e.eventDate > e.createdAt)
  /\ [][\A s \in Slots :
          Step(s, "update", "updateOne")
            => \A e \in events' \ events : e.eventDate > e.createdAt]_vars


\* ---------------------------------------------------------------- C30
\* C30 as stated: initialisation is lazy, retried and performed once: an
\* initDb that fails leaves isDbReady as it was, so that the next request
\* initialises again; once isDbReady is set it stays set and no request
\* constructs or connects a client again; and at most one store client is ever
\* connected, also when first requests arrive together before isDbReady is set.
C30_LazyRetriedOnce ==
  /\ [](Cardinality(clients) <= 1)
  /\ [][/\ \A s \in Slots :
             (Answers(s) /\ reqs'[s].op = "initDb")
               => (isDbReady' = isDbReady /\ clients' = clients /\ handles' = handles)
        /\ isDbReady => (isDbReady' /\ made' = made)
        /\ made' # made => \E s \in Slots : reqs[s].pc = "idle" /\ reqs'[s].op = "initDb"]_vars

\* what does hold: the same without the bound on connected clients; a client
\* is connected only by the initDb of a request that was received while
\* isDbReady was unset
C30_RetriedAndGated ==
  [][/\ \A s \in Slots :
          (Answers(s) /\ reqs'[s].op = "initDb")
            => (isDbReady' = isDbReady /\ clients' = clients /\ handles' = handles)
     /\ isDbReady => (isDbReady' /\ made' = made)
     /\ made' # made => \E s \in Slots : reqs[s].pc = "idle" /\ reqs'[s].op = "initDb"
     /\ clients' # clients
          => \E s \in Slots : /\ reqs[s].op = "initDb"
                              /\ clients' = clients \cup {reqs[s].loc.client}]_vars

====
